---------------------------- MODULE Spec2Model ----------------------------
(***************************************************************************)
(* A model of the TRADE core: the market data store (pkg/market), the      *)
(* metrics analyzer (pkg/analyzer), the signal strategy (pkg/strategy) and *)
(* the manager's tick callback (pkg/manager).                              *)
(*                                                                         *)
(* Numbers.  The Go code computes in float64, and the rounding of each      *)
(* operation decides what it returns (1003/1000 - 1 is below 0.003, the    *)
(* variance term of a constant series may come out negative); the model    *)
(* computes in IEEE 754 binary64, each operation rounded to nearest-even   *)
(* as the amd64 build rounds it (no fused multiply-add), with signed       *)
(* zeros, the infinities and NaN.                                          *)
(*                                                                         *)
(* Time.  A time.Time is an instant of nanosecond resolution: days since   *)
(* January 1 of year 1, seconds of the day, nanoseconds of the second.     *)
(*                                                                         *)
(* Optional values (Go nil pointers) are sequences: <<>> is nil, <<v>> is  *)
(* a pointer to v.                                                         *)
(***************************************************************************)
EXTENDS Integers, Sequences, FiniteSets, TLC

VARIABLES
    \* ---- market.MarketData
    priceHistory, volumeHistory, bidVolume, askVolume, timeStamps,
    highPrices, lowPrices, maxSize, roundNum, prevPrice, tickCallback, mdMutex,
    \* ---- analyzer.Analyzer
    metrics, trendStrengthWindow, warmupTicks, warmupComplete,
    \* ---- strategy.Strategy
    activeTrade,
    \* ---- the callers: position of the ingesting goroutine, its tick
    pc, curTick,
    \* ---- observations (history variables, written but never read by the code)
    signal,      \* return value of the latest GenerateSignal call
    emitted,     \* actions of the signals emitted so far, in order
    lastCall,    \* arguments of the latest GenerateSignal call
    lastEval,    \* result of checkSellConditions, if that call ran it
    arrived,     \* rounded prices stored since the latest Reset, in order
    lastTick,    \* the latest tick added
    fed,         \* number of ticks of the feed added since the latest Reset
    pass,        \* number of Resets so far
    snapshots,   \* per pass, the metrics snapshot ProcessTick returned per tick
    reached,     \* the history length has reached warmupTicks at some time
    \* ---- pkg/market, MarketData: the live connection
    wsConn,      \* <<>> (nil) or <<c>>, c the index of a connection in conns
    wsActive,
    symbols,
    \* ---- the other mutexes
    anMutex,     \* Analyzer.mutex (sync.RWMutex)
    stMutex,     \* Strategy.mutex (sync.RWMutex)
    logMutex,    \* Logger.mutex (sync.Mutex)
    \* ---- the environment and the goroutines
    conns,       \* the connections dialled so far: "open" or "closed"
    tasks,       \* per goroutine: its position (pc) and its local variables
    lastInput    \* the latest input read (message, file) and what became of it

mdVars == <<priceHistory, volumeHistory, bidVolume, askVolume, timeStamps,
            highPrices, lowPrices, maxSize, roundNum, prevPrice, tickCallback,
            mdMutex>>
anVars == <<metrics, trendStrengthWindow, warmupTicks, warmupComplete>>
stVars == <<activeTrade>>
stObs  == <<signal, emitted, lastCall, lastEval>>
mdObs  == <<arrived, lastTick>>
anObs  == <<fed, pass, snapshots, reached>>
thVars == <<pc, curTick>>
wsVars == <<wsConn, wsActive, symbols>>
lkVars == <<anMutex, stMutex, logMutex>>
goVars == <<conns, tasks, lastInput>>
ccVars == <<wsVars, lkVars, goVars>>
vars   == <<mdVars, anVars, stVars, stObs, mdObs, anObs, thVars, ccVars>>

---------------------------------------------------------------------------
(* Integers of the model checker.                                          *)

Abs(x) == IF x < 0 THEN -x ELSE x

Sign(x) == IF x > 0 THEN 1 ELSE IF x < 0 THEN -1 ELSE 0

---------------------------------------------------------------------------
(* Natural numbers of any size: sequences of limbs in base 2^14, the least *)
(* significant first, without leading zero limbs (0 is <<>>).  The model   *)
(* checker's integers have 32 bits; the 53-bit significands of float64, and *)
(* their products and quotients, are numbers of this kind.                 *)

limbBits == 14
limbBase == 16384

powersOfTwo ==
    <<1, 2, 4, 8, 16, 32, 64, 128, 256, 512, 1024, 2048, 4096, 8192, 16384,
      32768, 65536, 131072, 262144, 524288, 1048576, 2097152, 4194304,
      8388608, 16777216, 33554432, 67108864, 134217728, 268435456,
      536870912, 1073741824>>

\* 2^k for k in 0..30.
Pow2(k) == powersOfTwo[k + 1]

\* The element of a one-element set: The({f(v) : v \in {e}}) is f(e) with e
\* evaluated once, before f.
The(S) == CHOOSE v \in S : TRUE

\* The length from which a run of limbs is worked through in two halves.
halvedRun == 8

limb(a, i) == IF i >= 1 /\ i <= Len(a) THEN a[i] ELSE 0

\* The sequence without its leading (most significant) zero limbs.
BigTrim(a) ==
    IF Len(a) = 0 \/ a[Len(a)] # 0 THEN a
    ELSE IF Len(a) >= 2 /\ a[Len(a) - 1] # 0 THEN SubSeq(a, 1, Len(a) - 1)
    ELSE LET used == {i \in 1..Len(a) : a[i] # 0}
         IN  IF used = {} THEN <<>>
             ELSE SubSeq(a, 1, CHOOSE i \in used : \A j \in used : j <= i)

\* The limbs of a small natural number.
BigOf(x) ==
    BigTrim(<<x % limbBase, (x \div limbBase) % limbBase,
              x \div (limbBase * limbBase)>>)

\* The number whose columns (least significant first) hold any integers
\* between -2^30 and 2^30: the carries (borrows, where negative) are
\* propagated, and a negative carry out of the last column says that the
\* number is negative.
\* Columns i..hi are done one after the other; a long run is done in two
\* halves, so that the nesting stays shallow.
RECURSIVE carried(_, _, _, _, _)
carried(cols, i, hi, carry, done) ==
    IF i > hi THEN [carry |-> carry, done |-> done]
    ELSE IF hi - i >= halvedRun
    THEN The({carried(cols, (i + hi) \div 2 + 1, hi, half.carry, half.done) :
              half \in {carried(cols, i, (i + hi) \div 2, carry, done)}})
    ELSE IF hi - i >= 3
    THEN LET v1 == cols[i] + carry
             v2 == cols[i + 1] + v1 \div limbBase
             v3 == cols[i + 2] + v2 \div limbBase
             v4 == cols[i + 3] + v3 \div limbBase
         IN  carried(cols, i + 4, hi, v4 \div limbBase,
                     done \o <<v1 % limbBase, v2 % limbBase,
                               v3 % limbBase, v4 % limbBase>>)
    ELSE The({carried(cols, i + 1, hi, v \div limbBase,
                      Append(done, v % limbBase)) : v \in {cols[i] + carry}})

BigCarry(cols) ==
    The({BigTrim(res.done \o (IF res.carry = 0 THEN <<>> ELSE BigOf(res.carry))) :
         res \in {carried(cols, 1, Len(cols), 0, <<>>)}})

\* a + b for a of no fewer limbs than b.
longerPlus(a, b) ==
    BigCarry([i \in 1..Len(a) |-> IF i <= Len(b) THEN a[i] + b[i] ELSE a[i]])

BigAdd(a, b) == IF Len(a) >= Len(b) THEN longerPlus(a, b) ELSE longerPlus(b, a)

\* -1, 0 or 1 as a is below, equal to or above b.
BigCmp(a, b) ==
    IF Len(a) # Len(b) THEN (IF Len(a) < Len(b) THEN -1 ELSE 1)
    ELSE LET differ == {i \in 1..Len(a) : a[i] # b[i]}
         IN  IF differ = {} THEN 0
             ELSE LET top == CHOOSE i \in differ : \A j \in differ : j <= i
                  IN  IF a[top] < b[top] THEN -1 ELSE 1

\* a - b for a >= b: the borrows are negative carries.
BigSub(a, b) ==
    BigCarry([i \in 1..Len(a) |-> IF i <= Len(b) THEN a[i] - b[i] ELSE a[i]])

\* a * b for b of at most four limbs (a column is a sum of at most four
\* products of two limbs).
BigMul(a, b) ==
    IF Len(b) = 0 THEN <<>>
    ELSE IF Len(b) = 1 THEN BigCarry([k \in 1..Len(a) |-> a[k] * b[1]])
    ELSE LET ap == <<0, 0, 0>> \o a \o <<0, 0, 0, 0>>
             bp == b \o <<0, 0, 0>>
         IN  BigCarry([k \in 1..(Len(a) + Len(b)) |->
                          ap[k + 3] * bp[1] + ap[k + 2] * bp[2]
                          + ap[k + 1] * bp[3] + ap[k] * bp[4]])

\* The number of bits of a: 0 for 0.
\* The number of bits of a limb x: the k with 2^(k-1) <= x < 2^k.
bitsOf(x) ==
    IF x < 128
    THEN (IF x < 8
          THEN (IF x < 2 THEN x ELSE IF x < 4 THEN 2 ELSE 3)
          ELSE (IF x < 32 THEN (IF x < 16 THEN 4 ELSE 5)
                ELSE (IF x < 64 THEN 6 ELSE 7)))
    ELSE (IF x < 2048
          THEN (IF x < 512 THEN (IF x < 256 THEN 8 ELSE 9)
                ELSE (IF x < 1024 THEN 10 ELSE 11))
          ELSE (IF x < 8192 THEN (IF x < 4096 THEN 12 ELSE 13)
                ELSE 14))

BigBitLen(a) ==
    IF a = <<>> THEN 0 ELSE limbBits * (Len(a) - 1) + bitsOf(a[Len(a)])

\* a * 2^k: each limb of the result is the low bits of one limb of a above
\* the high bits of the limb below it.
BigShl(a, k) ==
    IF a = <<>> THEN <<>>
    ELSE LET whole == k \div limbBits
             part  == k % limbBits
             keep  == Pow2(limbBits - part)
         IN  [i \in 1..whole |-> 0]
             \o BigTrim([i \in 1..(Len(a) + 1) |->
                            (limb(a, i) % keep) * Pow2(part)
                            + limb(a, i - 1) \div keep])

\* floor(a / 2^k).
BigShr(a, k) ==
    LET whole == k \div limbBits
        part  == k % limbBits
    IN  IF whole >= Len(a) THEN <<>>
        ELSE BigTrim([i \in 1..(Len(a) - whole) |->
                         (a[i + whole] \div Pow2(part))
                         + (limb(a, i + whole + 1) % Pow2(part))
                           * Pow2(limbBits - part)])

\* Bit k of a (bit 0 is the least significant).
BigBit(a, k) == (limb(a, k \div limbBits + 1) \div Pow2(k % limbBits)) % 2

\* Some bit of a below bit k is set.
BigLowBits(a, k) ==
    \/ \E i \in 1..Len(a) : i <= k \div limbBits /\ a[i] # 0
    \/ limb(a, k \div limbBits + 1) % Pow2(k % limbBits) # 0

BigIsOdd(a) == limb(a, 1) % 2 = 1


\* The estimate of a quotient limb from the two leading limbs of the
\* remainder, lowered while the next limb shows it to be too large: rhat is
\* what the leading limbs leave over, d1 and d2 are the two leading limbs
\* of the divisor and r3 the third limb of the remainder.
RECURSIVE refined(_, _, _, _, _)
refined(qhat, rhat, d1, d2, r3) ==
    IF rhat < limbBase /\ qhat * d2 > rhat * limbBase + r3
    THEN refined(qhat - 1, rhat + d1, d1, d2, r3)
    ELSE qhat

\* The quotient limb floor(r / d) and the remainder, for r < d * 2^14 and d
\* of two limbs or more with a full leading limb: the estimate qhat is at
\* most 2 too large, and it is too large when r - qhat * d is negative.
RECURSIVE digitFrom(_, _, _)
digitFrom(r, d, qhat) ==
    The({IF left.carry = 0 THEN [digit |-> qhat, r |-> BigTrim(left.done)]
         ELSE digitFrom(r, d, qhat - 1) :
         left \in {carried([i \in 1..(Len(d) + 1) |->
                               limb(r, i) - qhat * limb(d, i)],
                           1, Len(d) + 1, 0, <<>>)}})

quotientDigit(r, d) ==
    LET n      == Len(d)
        top    == limb(r, n + 1) * limbBase + limb(r, n)
        guess  == top \div d[n]
        capped == IF guess > limbBase - 1 THEN limbBase - 1 ELSE guess
    IN  digitFrom(r, d, refined(capped, top - capped * d[n], d[n], d[n - 1],
                                limb(r, n - 1)))

\* One step of the long division: limb x of the dividend is brought down.
divideStep(st, d, x) ==
    The({[q |-> <<step.digit>> \o st.q, r |-> step.r] :
         step \in {quotientDigit(BigTrim(<<x>> \o st.r), d)}})

\* Long division, from limb i of a down to limb lo.
RECURSIVE divideFrom(_, _, _, _, _)
divideFrom(a, d, i, lo, st) ==
    IF i < lo THEN st
    ELSE IF i - lo >= halvedRun
    THEN The({divideFrom(a, d, (i + lo) \div 2 - 1, lo, half) :
              half \in {divideFrom(a, d, i, (i + lo) \div 2, st)}})
    ELSE The({divideFrom(a, d, i - 1, lo, next) :
              next \in {divideStep(st, d, a[i])}})

\* The division starts with the leading limbs of a, one fewer than d has, as
\* the remainder: they are below d.
dividedBy(a, d, shift) ==
    IF Len(a) < Len(d) THEN [q |-> <<>>, r |-> BigShr(a, shift)]
    ELSE The({[q |-> BigTrim(res.q), r |-> BigShr(res.r, shift)] :
              res \in {divideFrom(a, d, Len(a) - Len(d) + 1, 1,
                                  [q |-> <<>>,
                                   r |-> SubSeq(a, Len(a) - Len(d) + 2, Len(a))])}})

\* Division by one limb d, from limb i of a downwards: r is the remainder
\* and q the quotient so far.
RECURSIVE shortDivide(_, _, _, _, _, _)
shortDivide(a, d, i, lo, r, q) ==
    IF i < lo THEN [q |-> q, r |-> r]
    ELSE IF i - lo >= halvedRun
    THEN The({shortDivide(a, d, (i + lo) \div 2 - 1, lo, half.r, half.q) :
              half \in {shortDivide(a, d, i, (i + lo) \div 2, r, q)}})
    ELSE The({shortDivide(a, d, i - 1, lo, v % d, <<v \div d>> \o q) :
              v \in {r * limbBase + a[i]}})

\* floor(a / d) and a mod d, for d > 0.
BigDivMod(a, d) ==
    IF Len(d) = 1
    THEN The({[q |-> BigTrim(res.q), r |-> BigOf(res.r)] :
              res \in {shortDivide(a, d[1], Len(a), 1, 0, <<>>)}})
    ELSE The({dividedBy(x[1], x[2], x[3]) :
              x \in {<<BigShl(a, limbBits - bitsOf(d[Len(d)])),
                       BigShl(d, limbBits - bitsOf(d[Len(d)])),
                       limbBits - bitsOf(d[Len(d)])>>}})

\* The least s with s * s >= x, for x < 2^28, by bisection of lo..hi.
RECURSIVE rootAbove(_, _, _)
rootAbove(x, lo, hi) ==
    IF lo >= hi THEN hi
    ELSE The({IF mid * mid >= x THEN rootAbove(x, lo, mid)
              ELSE rootAbove(x, mid + 1, hi) : mid \in {(lo + hi) \div 2}})

\* floor(sqrt(a)) by Newton's iteration from a start value above the root.
RECURSIVE sqrtFrom(_, _)
sqrtFrom(a, x) ==
    The({IF BigCmp(next, x) >= 0 THEN x ELSE sqrtFrom(a, next) :
         next \in {BigShr(BigAdd(x, BigDivMod(a, x).q), 1)}})

\* The start value: with the two leading limbs of a as t and 2k limbs below
\* them (2k - 1 if that is the even number), a < (t + 1) * 2^(14 * 2k).
sqrtStart(a) ==
    IF Len(a) <= 2 THEN BigOf(rootAbove(limb(a, 2) * limbBase + limb(a, 1) , 0, limbBase))
    ELSE LET low == IF (Len(a) - 2) % 2 = 0 THEN Len(a) - 2 ELSE Len(a) - 1
             t   == IF low = Len(a) - 2
                    THEN a[Len(a)] * limbBase + a[Len(a) - 1]
                    ELSE a[Len(a)]
         IN  BigShl(BigOf(rootAbove(t + 1, 0, limbBase)), limbBits * (low \div 2))

BigSqrt(a) ==
    IF a = <<>> THEN <<>>
    ELSE The({sqrtFrom(v[1], v[2]) : v \in {<<a, sqrtStart(a)>>}})

---------------------------------------------------------------------------
(* float64 (IEEE 754 binary64), round to nearest even.  A finite value is  *)
(* (-1)^s * m * 2^e with m < 2^53, and m >= 2^52 unless e = -1074          *)
(* (subnormal); zero has m = 0 and e = 0 and keeps its sign.               *)

mantissaBits == 53
minExponent  == -1074
maxExponent  == 971

F64NaN       == [k |-> "nan", s |-> 0, e |-> 0, m |-> <<>>]
F64Inf(s)    == [k |-> "inf", s |-> s, e |-> 0, m |-> <<>>]
F64Zero(s)   == [k |-> "fin", s |-> s, e |-> 0, m |-> <<>>]

F64IsNaN(a)  == a.k = "nan"
F64IsInf(a)  == a.k = "inf"
F64IsZero(a) == a.k = "fin" /\ a.m = <<>>

\* (-1)^s * m * 2^e for a significand m below 2^53 that is already rounded:
\* above the largest exponent it is an infinity.
finiteOrInf(s, m, e) ==
    IF m = <<>> THEN F64Zero(s)
    ELSE IF e > maxExponent THEN F64Inf(s)
    ELSE [k |-> "fin", s |-> s, e |-> e, m |-> m]

\* The same for a significand r that rounding up may have carried to 2^53.
normalised(s, r, e) ==
    IF BigBitLen(r) > mantissaBits THEN finiteOrInf(s, BigShr(r, 1), e + 1)
    ELSE finiteOrInf(s, r, e)

\* q rounded to nearest, ties to even: half is the first bit left out, rest
\* says that something lies below that bit.
nearestEven(s, q, e, half, rest) ==
    normalised(s, IF half /\ (rest \/ BigIsOdd(q)) THEN BigAdd(q, <<1>>) ELSE q, e)

\* m without its drop lowest bits (with -drop zero bits more if drop < 0).
roundDropping(s, m, e, sticky, drop) ==
    IF drop <= 0 THEN finiteOrInf(s, BigShl(m, -drop), e + drop)
    ELSE nearestEven(s, BigShr(m, drop), e + drop, BigBit(m, drop - 1) = 1,
                     sticky \/ BigLowBits(m, drop - 1))

\* The number of low bits that a significand of len bits at exponent e
\* loses: what exceeds 53 bits, and what lies below 2^-1074.
droppedBits(len, e) ==
    IF len - mantissaBits > minExponent - e THEN len - mantissaBits
    ELSE minExponent - e

\* The float64 nearest to (-1)^s * (m + f) * 2^e, where f is 0 if ~sticky
\* and some fraction strictly between 0 and 1 otherwise (in which case m has
\* at least 55 bits).
F64Round(s, m, e, sticky) ==
    IF m = <<>> THEN F64Zero(s)
    ELSE roundDropping(s, m, e, sticky, droppedBits(BigBitLen(m), e))

\* An integer of the model checker as a float64 (exact).
F64OfInt(i) == F64Round(IF i < 0 THEN 1 ELSE 0, BigOf(IF i < 0 THEN -i ELSE i), 0, FALSE)

\* A NaN keeps its one representation.
F64Neg(a) == IF F64IsNaN(a) THEN a ELSE [a EXCEPT !.s = 1 - @]
F64Abs(a) == IF F64IsNaN(a) THEN a ELSE [a EXCEPT !.s = 0]

\* -1, 0, 1 as |a| is below, equal to or above |b|, for finite a and b.
magnitudeCmp(a, b) ==
    IF a.m = <<>> \/ b.m = <<>>
    THEN (IF a.m = b.m THEN 0 ELSE IF a.m = <<>> THEN -1 ELSE 1)
    ELSE IF a.e # b.e
    THEN (IF a.e < b.e THEN -1 ELSE 1)
    ELSE BigCmp(a.m, b.m)

\* x - y at exponent e for the significands x of sign xs and y of sign ys,
\* order being BigCmp(x, y); an exact zero is +0.
exactDifference(xs, x, ys, y, e, order) ==
    IF order >= 0
    THEN [s |-> IF order = 0 THEN 0 ELSE xs, m |-> BigSub(x, y), e |-> e,
          sticky |-> FALSE]
    ELSE [s |-> ys, m |-> BigSub(y, x), e |-> e, sticky |-> FALSE]

\* hi + lo with big the significand of hi at the exponent of lo.
alignedSum(hi, lo, big) ==
    IF hi.s = lo.s
    THEN [s |-> hi.s, m |-> BigAdd(big, lo.m), e |-> lo.e, sticky |-> FALSE]
    ELSE exactDifference(hi.s, big, lo.s, lo.m, lo.e, BigCmp(big, lo.m))

\* hi + lo for hi.e >= lo.e, before rounding: the operand of the larger
\* exponent is shifted onto the smaller one's; an operand more than 64
\* binary places below the other only breaks a tie.
orderedSum(hi, lo) ==
    IF hi.e - lo.e > 64
    THEN [s |-> hi.s,
          m |-> IF hi.s = lo.s THEN BigShl(hi.m, 3)
                ELSE BigSub(BigShl(hi.m, 3), <<1>>),
          e |-> hi.e - 3, sticky |-> TRUE]
    ELSE alignedSum(hi, lo, BigShl(hi.m, hi.e - lo.e))

rounded(x) == F64Round(x.s, x.m, x.e, x.sticky)

\* a + b for finite a and b, neither zero.
addFinite(a, b) ==
    rounded(IF a.e >= b.e THEN orderedSum(a, b) ELSE orderedSum(b, a))

F64Add(a, b) ==
    IF F64IsNaN(a) \/ F64IsNaN(b) THEN F64NaN
    ELSE IF F64IsInf(a)
    THEN (IF F64IsInf(b) /\ a.s # b.s THEN F64NaN ELSE a)
    ELSE IF F64IsInf(b) THEN b
    ELSE IF F64IsZero(a)
    THEN (IF F64IsZero(b) THEN F64Zero(IF a.s = 1 /\ b.s = 1 THEN 1 ELSE 0)
          ELSE b)
    ELSE IF F64IsZero(b) THEN a
    ELSE addFinite(a, b)

F64Sub(a, b) == F64Add(a, F64Neg(b))

\* The number of zero limbs at the low end of a # 0.
lowZeroLimbs(a) ==
    IF a[1] # 0 THEN 0
    ELSE IF a[2] # 0 THEN 1
    ELSE (CHOOSE i \in 1..Len(a) : a[i] # 0 /\ \A j \in 1..(i - 1) : a[j] = 0) - 1

\* a * b for finite a and b, neither zero: the product of the significands
\* without their low zero limbs (za and zb of them), the one of fewer limbs
\* as the multiplier.
multiplyFinite(a, b, za, zb) ==
    LET am == SubSeq(a.m, za + 1, Len(a.m))
        bm == SubSeq(b.m, zb + 1, Len(b.m))
    IN  F64Round((a.s + b.s) % 2,
                 IF Len(bm) <= Len(am) THEN BigMul(am, bm) ELSE BigMul(bm, am),
                 a.e + b.e + limbBits * (za + zb), FALSE)

F64Mul(a, b) ==
    LET s == (a.s + b.s) % 2
    IN  IF F64IsNaN(a) \/ F64IsNaN(b) THEN F64NaN
        ELSE IF F64IsInf(a) \/ F64IsInf(b)
        THEN (IF F64IsZero(a) \/ F64IsZero(b) THEN F64NaN ELSE F64Inf(s))
        ELSE IF F64IsZero(a) \/ F64IsZero(b) THEN F64Zero(s)
        ELSE multiplyFinite(a, b, lowZeroLimbs(a.m), lowZeroLimbs(b.m))

\* a / b for finite a and b, neither zero: the divisor without its low zero
\* limbs, 55 further bits of quotient, the remainder as the sticky part.
divideFinite(a, b, zeros) ==
    LET bm == SubSeq(b.m, zeros + 1, Len(b.m))
        up == 55 + BigBitLen(bm) - BigBitLen(a.m)
    IN  The({F64Round((a.s + b.s) % 2, res.q,
                      a.e - b.e - limbBits * zeros - up, res.r # <<>>) :
             res \in {BigDivMod(BigShl(a.m, up), bm)}})

F64Div(a, b) ==
    LET s == (a.s + b.s) % 2
    IN  IF F64IsNaN(a) \/ F64IsNaN(b) THEN F64NaN
        ELSE IF F64IsInf(a) THEN (IF F64IsInf(b) THEN F64NaN ELSE F64Inf(s))
        ELSE IF F64IsInf(b) THEN F64Zero(s)
        ELSE IF F64IsZero(b) THEN (IF F64IsZero(a) THEN F64NaN ELSE F64Inf(s))
        ELSE IF F64IsZero(a) THEN F64Zero(s)
        ELSE The({divideFinite(x[1], x[2], lowZeroLimbs(x[2].m)) :
                  x \in {<<a, b>>}})

\* The square root of n * 2^(2 * e), n of 108 bits or more.
sqrtFinite(n, e) ==
    The({F64Round(0, root, e, BigCmp(BigMul(root, root), n) # 0) :
         root \in {BigSqrt(n)}})

\* math.Sqrt.
F64Sqrt(a) ==
    IF F64IsNaN(a) \/ F64IsZero(a) THEN a
    ELSE IF a.s = 1 THEN F64NaN
    ELSE IF F64IsInf(a) THEN a
    ELSE LET want == 108 - BigBitLen(a.m)
             up   == IF (a.e - want) % 2 = 0 THEN want ELSE want + 1
         IN  sqrtFinite(BigShl(a.m, up), (a.e - up) \div 2)

F64Eq(a, b) ==
    /\ ~F64IsNaN(a) /\ ~F64IsNaN(b)
    /\ \/ a = b
       \/ F64IsZero(a) /\ F64IsZero(b)

F64Lt(a, b) ==
    /\ ~F64IsNaN(a) /\ ~F64IsNaN(b)
    /\ ~F64Eq(a, b)
    /\ IF F64IsInf(a) THEN a.s = 1
       ELSE IF F64IsInf(b) THEN b.s = 0
       ELSE IF a.s # b.s THEN a.s = 1
       ELSE IF a.s = 0 THEN magnitudeCmp(a, b) < 0
       ELSE magnitudeCmp(a, b) > 0

F64Le(a, b) == F64Lt(a, b) \/ F64Eq(a, b)
F64Gt(a, b) == F64Lt(b, a)
F64Ge(a, b) == F64Le(b, a)

\* math.Max.
F64Max(a, b) ==
    IF (F64IsInf(a) /\ a.s = 0) \/ (F64IsInf(b) /\ b.s = 0) THEN F64Inf(0)
    ELSE IF F64IsNaN(a) \/ F64IsNaN(b) THEN F64NaN
    ELSE IF F64IsZero(a) /\ F64IsZero(b) THEN (IF a.s = 1 THEN b ELSE a)
    ELSE IF F64Gt(a, b) THEN a ELSE b

F64IsFinite(a) == a.k = "fin"

\* The float64 constant a decimal literal of the source denotes: the value
\* nearest to n/d (one correctly rounded division of two exact integers),
\* and the value of an integer.
Q(n, d) == F64Div(F64OfInt(n), F64OfInt(d))
R(i)    == F64OfInt(i)

Zero   == F64Zero(0)
One    == F64OfInt(1)
NaN    == F64NaN
PosInf == F64Inf(0)
NegInf == F64Inf(1)

---------------------------------------------------------------------------
(* Package time.  A time.Time is the instant [day, sec, nsec]: whole days  *)
(* since January 1 of year 1 (UTC), seconds since midnight, nanoseconds    *)
(* within the second.  Locations and monotonic readings are left out: no   *)
(* Time of the program carries a monotonic reading, and nothing reads a    *)
(* location.                                                               *)

secondsPerDay  == 86400
secondsPerHour == 3600
nanosPerSecond == 1000000000

\* The zero Time, and Time.IsZero.
ZeroTime == [day |-> 0, sec |-> 0, nsec |-> 0]

IsZero(t) == t.day = 0 /\ t.sec = 0 /\ t.nsec = 0

\* Time.Before
TimeBefore(t, u) ==
    \/ t.day < u.day
    \/ t.day = u.day /\ t.sec < u.sec
    \/ t.day = u.day /\ t.sec = u.sec /\ t.nsec < u.nsec

\* The largest Duration, 2^63 - 1 nanoseconds, as hours, seconds below the
\* hour and nanoseconds below the second; the smallest is one nanosecond
\* longer.
maxDuration == [h |-> 2562047, s |-> 2836, n |-> 854775807]

\* late - early for early not after late, in hours, seconds and nanoseconds.
elapsed(late, early) ==
    LET n0 == late.nsec - early.nsec
        s0 == late.sec - early.sec - (IF n0 < 0 THEN 1 ELSE 0)
        d0 == late.day - early.day - (IF s0 < 0 THEN 1 ELSE 0)
        s1 == s0 % secondsPerDay
    IN  [h |-> 24 * d0 + (s1 \div secondsPerHour),
         s |-> s1 % secondsPerHour,
         n |-> n0 % nanosPerSecond]

\* A magnitude that does not fit a Duration is replaced by the largest
\* (smallest, for a negative difference) Duration.
saturated(d, negative) ==
    IF \/ d.h > maxDuration.h
       \/ d.h = maxDuration.h /\ d.s > maxDuration.s
       \/ d.h = maxDuration.h /\ d.s = maxDuration.s /\ d.n > maxDuration.n
    THEN [maxDuration EXCEPT !.n = IF negative THEN @ + 1 ELSE @]
    ELSE d

\* t.Sub(u): a Duration as its sign and its magnitude.
Sub(t, u) ==
    IF TimeBefore(t, u)
    THEN [neg |-> TRUE, mag |-> saturated(elapsed(u, t), TRUE)]
    ELSE [neg |-> FALSE, mag |-> saturated(elapsed(t, u), FALSE)]

\* The magnitude of Duration.Hours: float64(hour) + float64(nsec)/(60*60*1e9)
\* for hour = d / Hour and nsec = d % Hour (both conversions are exact).
secondNanos == F64OfInt(nanosPerSecond)
hourNanos   == F64Mul(F64OfInt(secondsPerHour), secondNanos)

hoursOf(mag) ==
    F64Add(F64OfInt(mag.h),
           F64Div(F64Add(F64Mul(F64OfInt(mag.s), secondNanos), F64OfInt(mag.n)),
                  hourNanos))

\* Duration.Hours: the quotient and the remainder of a negative Duration
\* are both negative, and the float64 operations are symmetric in the sign.
Hours(d) == IF d.neg THEN F64Neg(hoursOf(d.mag)) ELSE hoursOf(d.mag)

\* Days from the zero Time to the Unix epoch (January 1, 1970).
epochDay == 719162

\* The instant `minutes` minutes (fewer than 1440) after midnight of
\* January 1, 2024 (UTC): the times of the inputs below.
Clock(minutes) == [day |-> epochDay + 19723, sec |-> 60 * minutes, nsec |-> 0]

---------------------------------------------------------------------------
(* pkg/types                                                               *)

NewMarketMetrics ==
    [RealizedVolatility    |-> Zero,
     ATR                   |-> Zero,
     RelativeStrength      |-> Q(1, 2),
     OrderImbalance        |-> Q(1, 2),
     TrendStrength         |-> Zero,
     AvgTrendStrength      |-> Zero,
     MarketEfficiencyRatio |-> Zero]

NewTradeData ==
    [Active       |-> FALSE,
     Direction    |-> "",
     EntryPrice   |-> Zero,
     EntryTime    |-> ZeroTime,
     HighestPrice |-> Zero,
     LowestPrice  |-> Zero,
     StopLoss     |-> Zero]

NewBuySignal(price, timestamp, m) ==
    [Action          |-> "BUY",
     Side            |-> "buy",
     Price           |-> price,
     Time            |-> timestamp,
     Reason          |-> "",
     ProfitPercent   |-> Zero,
     UpdatedStopLoss |-> Zero,
     Metrics         |-> <<m>>]

NewSellSignal(price, timestamp, reason, profitPercent, stopLoss) ==
    [Action          |-> "CLOSE",
     Side            |-> "",
     Price           |-> price,
     Time            |-> timestamp,
     Reason          |-> reason,
     ProfitPercent   |-> profitPercent,
     UpdatedStopLoss |-> stopLoss,
     Metrics         |-> <<>>]

---------------------------------------------------------------------------
(* pkg/market: the store                                                   *)

\* The capacity NewMarketData gives the store (md.maxSize; 1000 in the code).
StoreCapacity == 3

Min(a, b) == IF a < b THEN a ELSE b
Max(a, b) == IF a > b THEN a ELSE b

RECURSIVE Pow10(_)
Pow10(k) == IF k = 0 THEN 1 ELSE 10 * Pow10(k - 1)

\* The integer nearest to m * 10^6 / 2^drop, ties to even: the digits that
\* strconv prints for the precision 6, without the decimal point.
roundedMicros(x, drop) ==
    The({IF BigBit(x, drop - 1) = 1 /\ (BigLowBits(x, drop - 1) \/ BigIsOdd(q))
         THEN BigAdd(q, <<1>>) ELSE q : q \in {BigShr(x, drop)}})

\* The integer part of |price| as fmt.Sprintf("%f", price) prints it, that
\* is after the rounding to six decimals (9.9999996 prints as 10.000000).
printedIntPart(price) ==
    IF price.e >= 0 THEN BigShl(price.m, price.e)
    ELSE BigDivMod(roundedMicros(BigMul(price.m, BigOf(1000000)), -price.e),
                   BigOf(1000000)).q

\* The number of decimal digits of the natural number w ("0" has one).
RECURSIVE decimalDigits(_)
decimalDigits(w) ==
    IF BigCmp(w, <<10>>) < 0 THEN 1
    ELSE 1 + decimalDigits(BigDivMod(w, <<10>>).q)

\* len(parts[0]) for parts = strings.Split(fmt.Sprintf("%f", price), "."):
\* the digits of the integer part, and the minus sign of a negative price
\* (of -0 too).
intPartLen(price) ==
    decimalDigits(printedIntPart(price)) + (IF price.s = 1 THEN 1 ELSE 0)

\* The precision AddTick infers from the first price: NaN and the infinities
\* print without a "." and take the else branch.
inferRoundNum(price) ==
    IF F64IsFinite(price) THEN Max(1, Min(8, 6 - intPartLen(price))) ELSE 2

\* math.Round: to the nearest integer, halves away from zero; the sign is
\* kept (Round(-0.4) is -0), and NaN and the infinities are returned as
\* they are.
MathRound(x) ==
    IF ~F64IsFinite(x) \/ x.e >= 0 THEN x
    ELSE F64Round(x.s,
                  IF BigBit(x.m, -x.e - 1) = 1
                  THEN BigAdd(BigShr(x.m, -x.e), <<1>>)
                  ELSE BigShr(x.m, -x.e),
                  0, FALSE)

\* md.round with md.roundNum = rn: math.Round(num*shift) / shift for
\* shift = math.Pow(10, rn), which is exact.
round(num, rn) ==
    The({F64Div(MathRound(F64Mul(num, shift)), shift) : shift \in {R(Pow10(rn))}})

\* addToLimitedSlice with eviction forgotten: the slice grows without bound.
addToLimitedSlice_NoEvict(slice, value, size) == Append(slice, value)

addToLimitedSlice(slice, value, size) ==
    IF Len(slice) >= size
    THEN Append(Tail(slice), value)
    ELSE Append(slice, value)

Last(slice) == slice[Len(slice)]

\* s[len(s)-k:], the last k elements of s.
LastN(s, k) == SubSeq(s, Len(s) - k + 1, Len(s))

\* The running high appended only when the price is a new high.
nextHighPrices_OnlyNewHigh(highs, price, size) ==
    IF Len(highs) = 0 \/ F64Gt(price, Last(highs))
    THEN addToLimitedSlice(highs, price, size)
    ELSE highs

\* The high of a tick taken to be its own price, nothing carried forward.
nextHighPrices_Price(highs, price, size) == addToLimitedSlice(highs, price, size)

nextHighPrices(highs, price, size) ==
    IF Len(highs) = 0 \/ F64Gt(price, Last(highs))
    THEN addToLimitedSlice(highs, price, size)
    ELSE addToLimitedSlice(highs, Last(highs), size)

\* The running low replaced by the price itself on every tick.
nextLowPrices_Price(lows, price, size) == addToLimitedSlice(lows, price, size)

nextLowPrices(lows, price, size) ==
    IF Len(lows) = 0 \/ F64Lt(price, Last(lows))
    THEN addToLimitedSlice(lows, price, size)
    ELSE addToLimitedSlice(lows, Last(lows), size)

\* The volume appended to both side sequences, whatever the tick's side.
nextAskVolume_BothSides(asks, tick, size) ==
    addToLimitedSlice(asks, tick.Volume, size)

nextAskVolume(asks, tick, size) ==
    IF tick.IsAsk THEN addToLimitedSlice(asks, tick.Volume, size) ELSE asks

nextBidVolume(bids, tick, size) ==
    IF tick.IsAsk THEN bids ELSE addToLimitedSlice(bids, tick.Volume, size)

\* AddTick from md.mutex.Lock() to the callback test: the update of the store.
AddTickUpdate(tick) ==
    \E rn \in {IF roundNum = 0 THEN inferRoundNum(tick.Price) ELSE roundNum} :
    \E price \in {round(tick.Price, rn)} :
        /\ roundNum' = rn
        /\ prevPrice' = IF roundNum = 0 THEN price ELSE prevPrice
        /\ priceHistory' = addToLimitedSlice(priceHistory, price, maxSize)
        /\ volumeHistory' = addToLimitedSlice(volumeHistory, tick.Volume, maxSize)
        /\ timeStamps' = addToLimitedSlice(timeStamps, tick.Timestamp, maxSize)
        /\ highPrices' = nextHighPrices(highPrices, price, maxSize)
        /\ lowPrices' = nextLowPrices(lowPrices, price, maxSize)
        /\ askVolume' = nextAskVolume(askVolume, tick, maxSize)
        /\ bidVolume' = nextBidVolume(bidVolume, tick, maxSize)
        /\ arrived' = Append(arrived, price)
        /\ lastTick' = <<tick>>
        /\ fed' = fed + 1
        /\ UNCHANGED <<maxSize, tickCallback>>

\* A Lock that never waits.
CanLock_Unguarded(mu) == TRUE

\* sync.RWMutex: Lock needs no holder at all, RLock needs no writer.
CanLock(mu)  == mu.writer = "" /\ mu.readers = {}
\* An RUnlock that leaves the reader registered.
RUnlock_Kept(mu, who) == mu

RLock(mu, who)   == [mu EXCEPT !.readers = @ \cup {who}]
RUnlock(mu, who) == [mu EXCEPT !.readers = @ \ {who}]

\* An RLock that never waits.
CanRLock_Unguarded(mu) == TRUE

CanRLock(mu) == mu.writer = ""

\* AddTick called by goroutine `who`.  Without a callback the whole call is
\* one critical section.  With one, the callback is invoked with md.mutex
\* still write-locked (the deferred Unlock runs when AddTick returns).
AddTickCall(who, tick) ==
    /\ pc = "idle"
    /\ CanLock(mdMutex)
    /\ AddTickUpdate(tick)
    /\ IF tickCallback
       THEN /\ mdMutex' = [mdMutex EXCEPT !.writer = who]
            /\ pc' = "callback"
            /\ curTick' = <<tick>>
       ELSE UNCHANGED <<mdMutex, pc, curTick>>

\* HasMinimumData with the test of the length left out.
HasMinimumData_Always(minTicks) == TRUE

HasMinimumData(minTicks) == Len(priceHistory) >= minTicks

GetCurrentPrice == IF Len(priceHistory) = 0 THEN Zero ELSE Last(priceHistory)

\* Reset with the last two assignments forgotten: prevPrice and roundNum
\* keep their values.
ResetBody_KeepPrecision ==
    /\ pc = "idle"
    /\ CanLock(mdMutex)
    /\ priceHistory' = <<>>
    /\ volumeHistory' = <<>>
    /\ bidVolume' = <<>>
    /\ askVolume' = <<>>
    /\ timeStamps' = <<>>
    /\ highPrices' = <<>>
    /\ lowPrices' = <<>>
    /\ arrived' = <<>>
    /\ fed' = 0
    /\ pass' = pass + 1
    /\ UNCHANGED <<prevPrice, roundNum, maxSize, tickCallback, mdMutex, lastTick>>

ResetBody ==
    /\ pc = "idle"
    /\ CanLock(mdMutex)
    /\ priceHistory' = <<>>
    /\ volumeHistory' = <<>>
    /\ bidVolume' = <<>>
    /\ askVolume' = <<>>
    /\ timeStamps' = <<>>
    /\ highPrices' = <<>>
    /\ lowPrices' = <<>>
    /\ prevPrice' = Zero
    /\ roundNum' = 0
    /\ arrived' = <<>>
    /\ fed' = 0
    /\ pass' = pass + 1
    /\ UNCHANGED <<maxSize, tickCallback, mdMutex, lastTick>>

---------------------------------------------------------------------------
(* pkg/strategy                                                            *)

\* Entry thresholds of checkBuyConditions.
realized_volatility_hi  == Q(70, 100)
realized_volatility_lo  == Q(35, 100)
relative_strength_hi    == Q(75, 100)
relative_strength_lo    == Q(25, 100)
trend_strength          == R(5)
avg_trend_strength      == R(3)
order_imbalance         == Q(65, 100)
market_efficiency_ratio == Q(93, 100)

\* checkBuyConditions without the order-imbalance test.
checkBuyConditions_NoImbalance(m) ==
    /\ F64Le(m.RealizedVolatility, realized_volatility_hi)
    /\ F64Ge(m.RealizedVolatility, realized_volatility_lo)
    /\ F64Le(m.RelativeStrength, relative_strength_hi)
    /\ F64Ge(m.RelativeStrength, relative_strength_lo)
    /\ F64Ge(m.TrendStrength, trend_strength)
    /\ F64Ge(m.AvgTrendStrength, avg_trend_strength)
    /\ F64Gt(m.TrendStrength, m.AvgTrendStrength)
    /\ F64Ge(m.MarketEfficiencyRatio, market_efficiency_ratio)

checkBuyConditions(m) ==
    /\ F64Le(m.RealizedVolatility, realized_volatility_hi)
    /\ F64Ge(m.RealizedVolatility, realized_volatility_lo)
    /\ F64Le(m.RelativeStrength, relative_strength_hi)
    /\ F64Ge(m.RelativeStrength, relative_strength_lo)
    /\ F64Ge(m.TrendStrength, trend_strength)
    /\ F64Ge(m.AvgTrendStrength, avg_trend_strength)
    /\ F64Gt(m.TrendStrength, m.AvgTrendStrength)
    /\ F64Ge(m.OrderImbalance, order_imbalance)
    /\ F64Ge(m.MarketEfficiencyRatio, market_efficiency_ratio)

\* Exit constants of checkSellConditions.
trailingStopActivation == R(1)
profitTargetMultiplier == Q(5, 2)
trailingStopDistance   == Q(3, 2)
trendStrengthThreshold == R(-7)
minProfit              == Q(3, 10)
\* The constants written into its expressions: atr < currentPrice*0.001,
\* trailingStopActivation / 100, minProfit/100, tradeDuration > 4, and the
\* profit*100 of checkExitConditions.
minimumATRFraction     == Q(1, 1000)
hundred                == R(100)
activationThreshold    == F64Div(trailingStopActivation, hundred)
minProfitFraction      == F64Div(minProfit, hundred)
maxTradeHours          == R(4)

\* exitReason with `else if` chaining: the first true predicate keeps the reason.
exitReason_FirstWins(hitStop, hitTarget, timeExit, trendExit) ==
    IF hitStop THEN "stop_loss"
    ELSE IF hitTarget THEN "take_profit"
    ELSE IF timeExit THEN "time_exit"
    ELSE IF trendExit THEN "trend_reversal"
    ELSE ""

\* The reason left by the four sequential, unconditional `if`s: each true
\* predicate overwrites the reason set by the ones before it.
exitReason(hitStop, hitTarget, timeExit, trendExit) ==
    LET r1 == IF hitStop THEN "stop_loss" ELSE ""
        r2 == IF hitTarget THEN "take_profit" ELSE r1
        r3 == IF timeExit THEN "time_exit" ELSE r2
        r4 == IF trendExit THEN "trend_reversal" ELSE r3
    IN  r4

\* The stop level never raised to the trail level.
trailingStop_Never(stopLoss, trailLevel, profit) == stopLoss

\* The stop level after the trailing adjustment: a local variable of
\* checkSellConditions, recomputed from the current price on each call.
trailingStop(stopLoss, trailLevel, profit) ==
    IF F64Ge(profit, activationThreshold) /\ F64Gt(trailLevel, stopLoss)
    THEN trailLevel
    ELSE stopLoss

\* The ATR with no floor under it.
minimumATR_NoFloor(atr, currentPrice) == atr

\* The ATR the stop distance is built from: at least 0.1% of the price.
minimumATR(atr, currentPrice) ==
    IF F64Lt(atr, F64Mul(currentPrice, minimumATRFraction))
    THEN F64Mul(currentPrice, minimumATRFraction)
    ELSE atr

\* The return values of checkSellConditions from its locals, and the four
\* predicates as observations for the properties below.  The trail level is
\* a local of the `if profit >= activationThreshold` block: it is computed
\* only there.
sellOutcome(profit, stopLoss, trailLevel, hitStop, hitTarget, timeExit, trendExit) ==
    [stopTriggered |-> hitStop \/ hitTarget \/ timeExit \/ trendExit,
     reason        |-> exitReason(hitStop, hitTarget, timeExit, trendExit),
     stopLoss      |-> trailingStop(stopLoss, trailLevel, profit),
     profit        |-> profit,
     hitStop       |-> hitStop,
     hitTarget     |-> hitTarget,
     timeExit      |-> timeExit,
     trendExit     |-> trendExit,
     trailed       |-> F64Ge(profit, activationThreshold)
                         /\ F64Gt(trailLevel, stopLoss)]

\* tradeDuration > 4 inside `if !entryTime.IsZero()`.
heldTooLong(entryTime, timestamp) ==
    /\ ~IsZero(entryTime)
    /\ F64Gt(Hours(Sub(timestamp, entryTime)), maxTradeHours)

\* checkSellConditions from the levels on: the four tests.
sellTests(profit, stopLoss, takeProfit, trailLevel, minProfitFrac, entryTime, currentPrice, timestamp, m) ==
    sellOutcome(profit, stopLoss, trailLevel,
                F64Le(currentPrice, stopLoss),
                F64Ge(currentPrice, takeProfit),
                heldTooLong(entryTime, timestamp) /\ F64Ge(profit, minProfitFrac),
                F64Lt(m.TrendStrength, trendStrengthThreshold)
                    /\ F64Ge(profit, minProfitFrac))

\* checkSellConditions from the stop distance on: the levels.
sellLevels(profit, stopDistance, entryTime, highestPrice, currentPrice, timestamp, m) ==
    sellTests(profit,
              F64Sub(currentPrice, stopDistance),
              F64Add(currentPrice, F64Mul(stopDistance, profitTargetMultiplier)),
              F64Mul(highestPrice,
                     F64Sub(One, F64Mul(trailingStopActivation,
                                        F64Div(m.ATR, highestPrice)))),
              minProfitFraction,
              entryTime, currentPrice, timestamp, m)

checkSellConditions(entryTime, entryPrice, highestPrice, currentPrice, timestamp, m) ==
    sellLevels(F64Sub(F64Div(currentPrice, entryPrice), One),
               F64Mul(trailingStopDistance, minimumATR(m.ATR, currentPrice)),
               entryTime, highestPrice, currentPrice, timestamp, m)

\* The trade record after checkEntryConditions found the buy conditions met.
openTrade(trade, price, timestamp) ==
    [trade EXCEPT !.Active = TRUE, !.Direction = "buy", !.EntryPrice = price,
                  !.EntryTime = timestamp, !.HighestPrice = price,
                  !.LowestPrice = price]

checkEntryConditions(price, timestamp, m) ==
    IF checkBuyConditions(m)
    THEN /\ activeTrade' = openTrade(activeTrade, price, timestamp)
         /\ signal' = <<NewBuySignal(price, timestamp, m)>>
         /\ emitted' = Append(emitted, "BUY")
         /\ lastEval' = <<>>
    ELSE /\ signal' = <<>>
         /\ lastEval' = <<>>
         /\ UNCHANGED <<activeTrade, emitted>>

\* The extrema update with the lowest price never updated.
updateExtrema_HighOnly(trade, price) ==
    [trade EXCEPT
        !.HighestPrice = IF F64Gt(price, trade.HighestPrice) THEN price ELSE @]

\* The trade record after the extrema update at the head of checkExitConditions.
updateExtrema(trade, price) ==
    [trade EXCEPT
        !.HighestPrice = IF F64Gt(price, trade.HighestPrice) THEN price ELSE @,
        !.LowestPrice  = IF F64Lt(price, trade.LowestPrice) THEN price ELSE @]

checkExitConditions(price, timestamp, m) ==
    \E t \in {updateExtrema(activeTrade, price)} :
    \E e \in {checkSellConditions(t.EntryTime, t.EntryPrice, t.HighestPrice,
                                  price, timestamp, m)} :
        /\ lastEval' = <<e>>
        /\ IF e.stopTriggered
           THEN /\ signal' = <<NewSellSignal(price, timestamp, e.reason,
                                             F64Mul(e.profit, hundred), e.stopLoss)>>
                /\ activeTrade' = [t EXCEPT !.Active = FALSE]
                /\ emitted' = Append(emitted, "CLOSE")
           ELSE /\ signal' = <<>>
                /\ activeTrade' = t
                /\ UNCHANGED emitted

\* inPosition without the test of the Active flag: always the entry check.
inPosition_Ignored(trade) == FALSE

\* Which of the two checks GenerateSignal runs, decided under s.mutex.
inPosition(trade) == trade.Active

GenerateSignalBody(price, timestamp, m) ==
    /\ lastCall' = <<[price |-> price, time |-> timestamp, metrics |-> m]>>
    /\ IF inPosition(activeTrade)
       THEN checkExitConditions(price, timestamp, m)
       ELSE checkEntryConditions(price, timestamp, m)

IsActiveTrade == activeTrade.Active

\* if s.activeTrade.Active && newStopLoss > 0
acceptsStopLoss(trade, newStopLoss) ==
    trade.Active /\ F64Gt(newStopLoss, Zero)

\* UpdateStopLoss: the only writer of activeTrade.StopLoss.  It returns
\* nothing.
UpdateStopLossBody(newStopLoss) ==
    /\ activeTrade' = IF acceptsStopLoss(activeTrade, newStopLoss)
                      THEN [activeTrade EXCEPT !.StopLoss = newStopLoss]
                      ELSE activeTrade
    /\ UNCHANGED <<signal, lastEval, emitted, lastCall>>

---------------------------------------------------------------------------
(* pkg/analyzer                                                            *)

\* The literals of analyzer.go.
minimumTicks          == 20      \* ProcessTick: HasMinimumData(20)
period                == 14      \* calculateATR
maxReturnsWindow      == 500     \* calculateRelativeStrength
trendPrices           == 30      \* calculateTrendStrength
efficiencyPrices      == 30      \* calculateMarketEfficiencyRatio
trendWindowCapacity   == 20      \* len(a.trendStrengthWindow) >= 20
minTrendValues        == 7       \* len(a.trendStrengthWindow) >= 7
trendScale            == 100000

\* sum += v over s[i..], from left to right as the Go loops add.
RECURSIVE sumFrom(_, _, _)
sumFrom(s, i, acc) ==
    IF i > Len(s) THEN acc
    ELSE The({sumFrom(s, i + 1, v) : v \in {F64Add(acc, s[i])}})

Sum(s) == sumFrom(s, 1, F64Zero(0))

\* stats.Mean: NaN (and an error the caller drops) for an empty input.
Mean(input) ==
    IF Len(input) = 0 THEN F64NaN
    ELSE F64Div(Sum(input), F64OfInt(Len(input)))

\* The population variance of stats.StandardDeviation: the mean of the
\* squared deviations from the mean.
squaredDeviations(input, m) ==
    [i \in 1..Len(input) |-> F64Mul(F64Sub(input[i], m), F64Sub(input[i], m))]

PopulationVariance(input) ==
    IF Len(input) = 0 THEN F64NaN
    ELSE The({F64Div(Sum(squaredDeviations(input, m)), F64OfInt(Len(input))) :
              m \in {Mean(input)}})

StandardDeviation(input) == F64Sqrt(PopulationVariance(input))

\* returns[i-1] = prices[i]/prices[i-1] - 1.
returnsOf(prices) ==
    [i \in 1..(Len(prices) - 1) |->
        F64Sub(F64Div(prices[i + 1], prices[i]), F64OfInt(1))]

\* math.Sqrt(252*1440)
annualisation == F64Sqrt(F64OfInt(252 * 1440))

\* stdDev * math.Sqrt(252*1440) * 100.
realizedVolatility(returns) ==
    F64Mul(F64Mul(StandardDeviation(returns), annualisation), F64OfInt(100))

trueRange(high, low, close) ==
    F64Max(F64Sub(high, low),
           F64Max(F64Abs(F64Sub(high, close)), F64Abs(F64Sub(low, close))))

\* With fewer than 14 samples the result is the previous RealizedVolatility
\* scaled by the last price.
calculateATR(prices, highs, lows, m) ==
    IF Len(highs) < period \/ Len(lows) < period \/ Len(prices) < period
    THEN IF Len(prices) > 0
         THEN F64Div(F64Mul(m.RealizedVolatility, Last(prices)), F64OfInt(100))
         ELSE F64Zero(0)
    ELSE LET h      == LastN(highs, period)
             l      == LastN(lows, period)
             closes == SubSeq(prices, Len(prices) - period, Len(prices) - 1)
         IN  F64Div(Sum([i \in 1..period |-> trueRange(h[i], l[i], closes[i])]),
                    F64OfInt(period))

\* The loop of calculateRelativeStrength: a return > 0 is added to the
\* gains, any other (a NaN included) is subtracted from the losses.
RECURSIVE tally(_, _, _)
tally(rets, i, acc) ==
    IF i > Len(rets) THEN acc
    ELSE The({tally(rets, i + 1, next) :
              next \in {IF F64Gt(rets[i], F64Zero(0))
                        THEN [acc EXCEPT !.gains = F64Add(@, rets[i])]
                        ELSE [acc EXCEPT !.losses = F64Sub(@, rets[i])]}})

\* part / (part + rest), or 0.5 when the sum is 0: the closing lines of
\* calculateRelativeStrength and of calculateOrderImbalance.
shareOf(part, rest) ==
    IF F64Eq(F64Add(part, rest), F64Zero(0)) THEN Q(1, 2)
    ELSE F64Div(part, F64Add(part, rest))

relativeStrengthOf(windowReturns) ==
    The({shareOf(t.gains, t.losses) :
         t \in {tally(windowReturns, 1,
                      [gains |-> F64Zero(0), losses |-> F64Zero(0)])}})

calculateRelativeStrength(returns) ==
    IF Len(returns) < 2 THEN Q(1, 2)
    ELSE relativeStrengthOf(
             LastN(returns, Min(maxReturnsWindow, Len(returns))))

calculateOrderImbalance(bids, asks) ==
    The({shareOf(t[1], t[2]) : t \in {<<Sum(bids), Sum(asks)>>}})

\* The closing lines of linearRegression, from the five sums.  r is 0 where
\* the denominator equals 0; a NaN denominator does not equal 0.
regressionFromSums(n, sumX, sumY, sumXY, sumXX, sumYY) ==
    LET numerator   == F64Sub(F64Mul(n, sumXY), F64Mul(sumX, sumY))
        dx          == F64Sub(F64Mul(n, sumXX), F64Mul(sumX, sumX))
        dy          == F64Sub(F64Mul(n, sumYY), F64Mul(sumY, sumY))
        slope       == F64Div(numerator, dx)
        denominator == F64Sqrt(F64Mul(dx, dy))
    IN  [slope     |-> slope,
         intercept |-> F64Div(F64Sub(sumY, F64Mul(slope, sumX)), n),
         r         |-> IF F64Eq(denominator, F64Zero(0)) THEN F64Zero(0)
                       ELSE F64Div(numerator, denominator)]

linearRegression(x, y) ==
    IF Len(x) # Len(y) \/ Len(x) < 2
    THEN [slope |-> F64Zero(0), intercept |-> F64Zero(0), r |-> F64Zero(0)]
    ELSE The({regressionFromSums(F64OfInt(Len(x)), s[1], s[2], s[3], s[4], s[5]) :
              s \in {<<Sum(x), Sum(y),
                       Sum([i \in 1..Len(x) |-> F64Mul(x[i], y[i])]),
                       Sum([i \in 1..Len(x) |-> F64Mul(x[i], x[i])]),
                       Sum([i \in 1..Len(x) |-> F64Mul(y[i], y[i])])>>}})

\* slope * r * r * (30 / meanPrice) * 100000 over the last 30 prices.
scaledTrend(reg, meanPrice) ==
    F64Mul(F64Mul(F64Mul(F64Mul(reg.slope, reg.r), reg.r),
                  F64Div(F64OfInt(trendPrices), meanPrice)),
           F64OfInt(trendScale))

trendOfWindow(windowPrices) ==
    The({scaledTrend(v[1], v[2]) :
         v \in {<<linearRegression([i \in 1..Len(windowPrices) |-> F64OfInt(i - 1)],
                                   windowPrices),
                  Mean(windowPrices)>>}})

calculateTrendStrength(prices) ==
    IF Len(prices) < trendPrices THEN F64Zero(0)
    ELSE trendOfWindow(LastN(prices, trendPrices))

\* The efficiency ratio with the net movement taken from one price further
\* back (where the history has one): 30 places before the last price.
calculateMarketEfficiencyRatio_Span30(prices) ==
    IF Len(prices) < efficiencyPrices THEN Q(1, 2)
    ELSE LET len         == Len(prices)
             from        == IF len > efficiencyPrices THEN len - efficiencyPrices
                            ELSE 1
             netMovement == F64Abs(F64Sub(prices[len], prices[from]))
             pathLength  ==
                 Sum([k \in 1..(efficiencyPrices - 1) |->
                        F64Abs(F64Sub(prices[len - efficiencyPrices + 1 + k],
                                      prices[len - efficiencyPrices + k]))])
         IN  IF F64Eq(pathLength, F64Zero(0)) THEN Q(1, 2)
             ELSE F64Div(netMovement, pathLength)

calculateMarketEfficiencyRatio(prices) ==
    IF Len(prices) < efficiencyPrices THEN Q(1, 2)
    ELSE LET len         == Len(prices)
             netMovement == F64Abs(F64Sub(prices[len],
                                          prices[len - efficiencyPrices + 1]))
             pathLength  ==
                 Sum([k \in 1..(efficiencyPrices - 1) |->
                        F64Abs(F64Sub(prices[len - efficiencyPrices + 1 + k],
                                      prices[len - efficiencyPrices + k]))])
         IN  IF F64Eq(pathLength, F64Zero(0)) THEN Q(1, 2)
             ELSE F64Div(netMovement, pathLength)

\* The window giving up its newest value, not its oldest, when it is full.
updateTrendWindow_DropNewest(window, trendStrength) ==
    Append(IF Len(window) >= trendWindowCapacity
           THEN SubSeq(window, 1, Len(window) - 1) ELSE window,
           trendStrength)

\* a.trendStrengthWindow after the new value is appended.
updateTrendWindow(window, trendStrength) ==
    Append(IF Len(window) >= trendWindowCapacity THEN Tail(window) ELSE window,
           trendStrength)

averageTrendStrength(window) ==
    IF Len(window) >= minTrendValues
    THEN F64Div(Sum(window), F64OfInt(Len(window)))
    ELSE F64Zero(0)

\* The second half of calculateMetrics, from the trend strength on.
metricsWithTrend(prices, highs, lows, bids, asks, window, m, returns, trendStrength) ==
    [metrics |->
       [RealizedVolatility    |-> realizedVolatility(returns),
        ATR                   |-> calculateATR(prices, highs, lows, m),
        RelativeStrength      |-> calculateRelativeStrength(returns),
        OrderImbalance        |-> calculateOrderImbalance(bids, asks),
        TrendStrength         |-> trendStrength,
        AvgTrendStrength      |->
            averageTrendStrength(updateTrendWindow(window, trendStrength)),
        MarketEfficiencyRatio |-> calculateMarketEfficiencyRatio(prices)],
     window |-> updateTrendWindow(window, trendStrength)]

\* calculateMetrics: the metrics and the trend-strength window it leaves.
\* The arguments are the arrays the getters of the store return.
calculateMetrics(prices, highs, lows, bids, asks, window, m) ==
    IF Len(prices) < 2
    THEN [metrics |-> m, window |-> window]
    ELSE The({metricsWithTrend(prices, highs, lows, bids, asks, window, m,
                               v[1], v[2]) :
              v \in {<<returnsOf(prices), calculateTrendStrength(prices)>>}})

\* The warmup flag following the current history length instead of latching.
latchWarmup_Unlatched(complete, hasData) == hasData

\* if !a.warmupComplete && HasMinimumData(a.warmupTicks) { warmupComplete = true }
latchWarmup(complete, hasData) == complete \/ hasData

HasSufficientData == warmupComplete

\* GetMetrics: a copy of the seven fields.
GetMetrics ==
    [RealizedVolatility    |-> metrics.RealizedVolatility,
     ATR                   |-> metrics.ATR,
     RelativeStrength      |-> metrics.RelativeStrength,
     OrderImbalance        |-> metrics.OrderImbalance,
     TrendStrength         |-> metrics.TrendStrength,
     AvgTrendStrength      |-> metrics.AvgTrendStrength,
     MarketEfficiencyRatio |-> metrics.MarketEfficiencyRatio]

\* The snapshot log with the return value of a ProcessTick call appended to
\* the current pass.
recordSnapshot(log, result) ==
    [log EXCEPT ![Len(log)] = Append(@, result)]

\* ProcessTick with the warmup test moved in front of the test for 20
\* prices.
ProcessTickBody_LatchFirst ==
    IF ~HasMinimumData(minimumTicks)
    THEN /\ snapshots' = recordSnapshot(snapshots, <<>>)
         /\ warmupComplete' =
                latchWarmup(warmupComplete, HasMinimumData(warmupTicks))
         /\ UNCHANGED <<metrics, trendStrengthWindow, warmupTicks>>
    ELSE \E c \in {calculateMetrics(priceHistory, highPrices,
                                    lowPrices, bidVolume,
                                    askVolume, trendStrengthWindow,
                                    metrics)} :
           /\ metrics' = c.metrics
           /\ trendStrengthWindow' = c.window
           /\ warmupComplete' =
                  latchWarmup(warmupComplete, HasMinimumData(warmupTicks))
           /\ snapshots' = recordSnapshot(snapshots, <<c.metrics>>)
           /\ UNCHANGED warmupTicks

\* ProcessTick: nil below 20 prices, else the recomputed metrics.
ProcessTickBody ==
    IF ~HasMinimumData(minimumTicks)
    THEN /\ snapshots' = recordSnapshot(snapshots, <<>>)
         /\ UNCHANGED anVars
    ELSE \E c \in {calculateMetrics(priceHistory, highPrices,
                                    lowPrices, bidVolume,
                                    askVolume, trendStrengthWindow,
                                    metrics)} :
           /\ metrics' = c.metrics
           /\ trendStrengthWindow' = c.window
           /\ warmupComplete' =
                  latchWarmup(warmupComplete, HasMinimumData(warmupTicks))
           /\ snapshots' = recordSnapshot(snapshots, <<c.metrics>>)
           /\ UNCHANGED warmupTicks

SetWarmupTicksBody(ticks) ==
    /\ warmupTicks' = ticks
    /\ UNCHANGED <<metrics, trendStrengthWindow, warmupComplete>>

---------------------------------------------------------------------------
(* The state after construction: NewMarketData, NewAnalyzer, NewStrategy.  *)

defaultWarmupTicks == 300

NoLock == [writer |-> "", readers |-> {}]

InitStore(capacity, callback) ==
    /\ priceHistory = <<>>
    /\ volumeHistory = <<>>
    /\ bidVolume = <<>>
    /\ askVolume = <<>>
    /\ timeStamps = <<>>
    /\ highPrices = <<>>
    /\ lowPrices = <<>>
    /\ maxSize = capacity
    /\ roundNum = 0
    /\ prevPrice = Zero
    /\ tickCallback = callback
    /\ mdMutex = NoLock
    /\ wsConn = <<>>
    /\ wsActive = FALSE
    /\ symbols = <<>>

\* NewAnalyzer: metrics: types.NewMarketMetrics()
InitAnalyzer ==
    /\ metrics = NewMarketMetrics
    /\ trendStrengthWindow = <<>>
    /\ warmupTicks = defaultWarmupTicks
    /\ warmupComplete = FALSE

InitStrategy == activeTrade = NewTradeData

InitObs ==
    /\ signal = <<>>
    /\ emitted = <<>>
    /\ lastCall = <<>>
    /\ lastEval = <<>>
    /\ arrived = <<>>
    /\ lastTick = <<>>
    /\ fed = 0
    /\ pass = 0
    /\ snapshots = <<<<>>>>
    /\ reached = FALSE
    /\ pc = "idle"
    /\ curTick = <<>>
    /\ anMutex = NoLock
    /\ stMutex = NoLock
    /\ logMutex = NoLock
    /\ conns = <<>>
    /\ tasks = <<>>
    /\ lastInput = <<>>

---------------------------------------------------------------------------
(* SpecStrategy: any sequence of GenerateSignal calls on one Strategy.     *)

MaxSignals == 3
\* The latest call time, in minutes after midnight.
MaxTime    == 330

StrategyPrices == {R(100), R(101), R(102)}
StrategyTimes  == {ZeroTime, Clock(60), Clock(MaxTime)}

\* Metrics that meet every entry threshold, with ATR = 1.
EntryMetrics ==
    [RealizedVolatility    |-> Q(1, 2),
     ATR                   |-> One,
     RelativeStrength      |-> Q(1, 2),
     OrderImbalance        |-> Q(7, 10),
     TrendStrength         |-> R(6),
     AvgTrendStrength      |-> R(4),
     MarketEfficiencyRatio |-> Q(95, 100)]

\* A reversed trend: TrendStrength below the exit threshold.
ReversalMetrics == [EntryMetrics EXCEPT !.TrendStrength = R(-8)]

\* The same with no ATR, so that the floor of 0.1% of the price applies.
FlatReversalMetrics == [ReversalMetrics EXCEPT !.ATR = Zero]

StrategyMetrics == {EntryMetrics, FlatReversalMetrics}

GenerateSignal ==
    \E price \in StrategyPrices, timestamp \in StrategyTimes, m \in StrategyMetrics :
        /\ Len(emitted) < MaxSignals
        /\ GenerateSignalBody(price, timestamp, m)
        /\ UNCHANGED <<ccVars, mdVars, anVars, mdObs, anObs, thVars>>

\* The levels UpdateStopLoss is called with: one below the prices, and zero
\* (refused).
StopLevels == {Q(199, 2), Zero}

UpdateStopLoss ==
    \E newStopLoss \in StopLevels :
        /\ UpdateStopLossBody(newStopLoss)
        /\ UNCHANGED <<ccVars, mdVars, anVars, mdObs, anObs, thVars>>

InitStrategySpec ==
    /\ InitStore(StoreCapacity, FALSE)
    /\ InitAnalyzer
    /\ InitStrategy
    /\ InitObs

NextStrategy == GenerateSignal \/ UpdateStopLoss

SpecStrategy == InitStrategySpec /\ [][NextStrategy]_vars

IsClose(sig) == sig # <<>> /\ sig[1].Action = "CLOSE"

\* C1: the emitted signals alternate BUY, CLOSE, BUY, ... starting with BUY,
\* and a trade is active exactly after a BUY that no CLOSE has followed.
C1_Alternation ==
    /\ \A i \in 1..Len(emitted) :
          emitted[i] = IF i % 2 = 1 THEN "BUY" ELSE "CLOSE"
    /\ IsActiveTrade <=> (Len(emitted) % 2 = 1)

\* A second position has been opened after the first was closed.
C1_Witness == emitted = <<"BUY", "CLOSE", "BUY">> /\ IsActiveTrade

\* The earliest true exit predicate, in the order stop_loss, take_profit,
\* time_exit, trend_reversal.
firstTrueReason(e) ==
    IF e.hitStop THEN "stop_loss"
    ELSE IF e.hitTarget THEN "take_profit"
    ELSE IF e.timeExit THEN "time_exit"
    ELSE IF e.trendExit THEN "trend_reversal"
    ELSE ""

\* The latest true exit predicate in the same order.
lastTrueReason(e) ==
    IF e.trendExit THEN "trend_reversal"
    ELSE IF e.timeExit THEN "time_exit"
    ELSE IF e.hitTarget THEN "take_profit"
    ELSE IF e.hitStop THEN "stop_loss"
    ELSE ""

\* C8 as claimed: a CLOSE carries the reason of the earliest exit predicate
\* that is true on its tick.
C8_FirstTrueWins ==
    IsClose(signal) => signal[1].Reason = firstTrueReason(lastEval[1])

\* C8 as amended: a CLOSE carries the reason of the latest exit predicate
\* that is true on its tick (each true predicate overwrites the reason).
C8_LastTrueWins ==
    IsClose(signal) => signal[1].Reason = lastTrueReason(lastEval[1])

\* A CLOSE on a tick where time_exit and trend_reversal are both true.
C8_Witness ==
    /\ IsClose(signal)
    /\ lastEval[1].timeExit /\ lastEval[1].trendExit
    /\ signal[1].Reason = "trend_reversal"

\* C9: entered at 100 with ATR = 1, the tick at 102 has raised the stop to
\* the trail level; the next tick, at that level (and with neither the time
\* exit nor the trend reversal true), produces CLOSE stop_loss.
C9_TrailingStopCloses ==
    [][ ( /\ activeTrade.Active
          /\ activeTrade.EntryPrice = R(100)
          /\ lastCall # <<>>
          /\ lastCall[1].price = R(102)
          /\ lastCall[1].metrics.ATR = One
          /\ lastEval # <<>>
          /\ lastEval[1].trailed
          /\ lastCall'[1].price = lastEval[1].stopLoss
          /\ lastCall'[1].metrics.ATR = One
          /\ lastEval' # <<>>
          /\ ~lastEval'[1].timeExit
          /\ ~lastEval'[1].trendExit )
        => ( /\ IsClose(signal')
             /\ signal'[1].Reason = "stop_loss" ) ]_vars

\* C10: once the trailing stop has engaged on a tick of an open position
\* (entered at a positive price), the stop level computed on the next tick
\* of that position is not below the engaged level.
C10_StopNeverDecreases ==
    [][ ( /\ activeTrade.Active
          /\ F64Gt(activeTrade.EntryPrice, Zero)
          /\ lastEval # <<>>
          /\ lastEval[1].trailed
          /\ activeTrade'.Active
          /\ lastEval' # <<>> )
        => F64Ge(lastEval'[1].stopLoss, lastEval[1].stopLoss) ]_vars

\* C10, the other half: while a position is open and the trailing stop has
\* engaged, the trade record holds the engaged stop level.
C10_StopPersists ==
    (activeTrade.Active /\ lastEval # <<>> /\ lastEval[1].trailed)
        => activeTrade.StopLoss = lastEval[1].stopLoss

\* C11: for a position entered at a positive price with ATR = 1, a tick (with
\* ATR = 1) whose positive price is at or below entry price - 1.5 * ATR, or at
\* or above entry price + 2.5 * 1.5 * ATR, produces a CLOSE signal.
C11_EntryLevelsClose ==
    [][ ( /\ activeTrade.Active
          /\ F64Gt(activeTrade.EntryPrice, Zero)
          /\ lastEval' # <<>>
          /\ lastCall'[1].metrics.ATR = One
          /\ F64Gt(lastCall'[1].price, Zero)
          /\ \/ F64Le(lastCall'[1].price,
                    F64Sub(activeTrade.EntryPrice,
                         F64Mul(trailingStopDistance, One)))
             \/ F64Ge(lastCall'[1].price,
                    F64Add(activeTrade.EntryPrice,
                         F64Mul(F64Mul(trailingStopDistance, One),
                              profitTargetMultiplier))) )
        => IsClose(signal') ]_vars

\* The profit fraction, the floored ATR and the four exit predicates of a
\* tick (price, time, metrics) for a position, written out from the claim.
tickProfit(trade, c) == F64Sub(F64Div(c.price, trade.EntryPrice), One)

\* The numbers of the claims: 1.5 and 2.5 times the ATR, 0.1% of the price,
\* a profit of 0.3% and of 1%, a trend strength of -7.
oneAndAHalf   == Q(3, 2)
twoAndAHalf   == Q(5, 2)
tenthPercent  == Q(1, 1000)
threeTenthsPercent == Q(3, 1000)
onePercent    == Q(1, 100)
minusSeven    == R(-7)

tickATR(c) ==
    IF F64Lt(c.metrics.ATR, F64Mul(c.price, tenthPercent))
    THEN F64Mul(c.price, tenthPercent)
    ELSE c.metrics.ATR

\* t is more than `seconds` seconds after u (for a t that is not years
\* after u).
laterByMoreThan(t, u, seconds) ==
    /\ t.day >= u.day
    /\ \/ (t.day - u.day) * secondsPerDay + t.sec - u.sec > seconds
       \/ /\ (t.day - u.day) * secondsPerDay + t.sec - u.sec = seconds
          /\ t.nsec > u.nsec

anyExitPredicate(trade, c) ==
    LET stopDistance == F64Mul(oneAndAHalf, tickATR(c))
        profit       == tickProfit(trade, c)
    IN  \/ F64Le(c.price, F64Sub(c.price, stopDistance))
        \/ F64Ge(c.price, F64Add(c.price, F64Mul(stopDistance, twoAndAHalf)))
        \/ /\ trade.EntryTime # ZeroTime
           /\ laterByMoreThan(c.time, trade.EntryTime, 4 * secondsPerHour)
           /\ F64Ge(profit, threeTenthsPercent)
        \/ /\ F64Lt(c.metrics.TrendStrength, minusSeven)
           /\ F64Ge(profit, threeTenthsPercent)

\* The stop level of the tick: price - 1.5 * ATR, raised to the trail level
\* highest - ATR when the profit is at least 1% and that level is higher.
tickStopLevel(trade, c) ==
    LET highest == IF F64Gt(c.price, trade.HighestPrice)
                   THEN c.price ELSE trade.HighestPrice
        base    == F64Sub(c.price, F64Mul(oneAndAHalf, tickATR(c)))
        trail   == F64Mul(highest, F64Sub(One, F64Div(c.metrics.ATR, highest)))
    IN  IF F64Ge(tickProfit(trade, c), onePercent) /\ F64Gt(trail, base)
        THEN trail ELSE base

\* C13: a GenerateSignal call on an open position returns one CLOSE (tick
\* price, profit percent (price/entryPrice - 1) * 100, the stop level of the
\* tick) and closes the position when an exit predicate is true, and returns
\* nothing and keeps the position open when none is.
C13_ExitIffPredicate ==
    [][ (activeTrade.Active /\ lastEval' # <<>>) =>
          LET c == lastCall'[1]
          IN  IF anyExitPredicate(activeTrade, c)
              THEN /\ IsClose(signal')
                   /\ signal'[1].Price = c.price
                   /\ signal'[1].ProfitPercent =
                          F64Mul(tickProfit(activeTrade, c), hundred)
                   /\ signal'[1].UpdatedStopLoss = tickStopLevel(activeTrade, c)
                   /\ emitted' = Append(emitted, "CLOSE")
                   /\ ~activeTrade'.Active
              ELSE /\ signal' = <<>>
                   /\ emitted' = emitted
                   /\ activeTrade'.Active ]_vars

\* A CLOSE whose stop level is the trail level.
C13_Witness ==
    /\ IsClose(signal)
    /\ lastEval[1].trailed
    /\ signal[1].UpdatedStopLoss =
           F64Mul(activeTrade.HighestPrice,
                  F64Sub(One, F64Div(lastCall[1].metrics.ATR,
                                     activeTrade.HighestPrice)))

---------------------------------------------------------------------------
(* SpecStore: any sequence of AddTick and Reset calls on a store that has  *)
(* no callback registered.                                                 *)

MaxTicks  == 5
MaxResets == 1

\* Prices with two and three decimals and with one to five integer digits,
\* so that the inferred precision and the rounding both vary.
StoreTicks ==
    { [Price |-> Q(1234567, 100), Volume |-> R(1), IsAsk |-> FALSE, Timestamp |-> Clock(1)],
      [Price |-> Q(9999995, 1000),Volume |-> R(2), IsAsk |-> TRUE,  Timestamp |-> Clock(2)],
      [Price |-> Q(100125, 1000), Volume |-> R(3), IsAsk |-> FALSE, Timestamp |-> Clock(3)],
      [Price |-> Q(21, 4),        Volume |-> R(4), IsAsk |-> TRUE,  Timestamp |-> Clock(4)],
      [Price |-> R(7),            Volume |-> R(5), IsAsk |-> TRUE,  Timestamp |-> Clock(5)] }

AddTick ==
    \E tick \in StoreTicks :
        /\ fed < MaxTicks
        /\ AddTickCall("caller", tick)
        /\ UNCHANGED <<ccVars, anVars, stVars, stObs, pass, snapshots, reached>>

Reset ==
    /\ pass < MaxResets
    /\ ResetBody
    /\ UNCHANGED <<ccVars, anVars, stVars, stObs, snapshots, reached, thVars>>

InitStoreSpec ==
    /\ InitStore(StoreCapacity, FALSE)
    /\ InitAnalyzer
    /\ InitStrategy
    /\ InitObs

NextStore == AddTick \/ Reset

SpecStore == InitStoreSpec /\ [][NextStore]_vars

\* C3: the price history is never longer than the capacity and is always the
\* most recent min(n, capacity) rounded prices added since the latest Reset,
\* in arrival order.
C3_Fifo ==
    /\ Len(priceHistory) <= maxSize
    /\ priceHistory = LastN(arrived, Min(Len(arrived), maxSize))

\* The store is full after a Reset and has evicted at least two elements.
C3_Witness ==
    /\ pass >= 1
    /\ Len(arrived) >= maxSize + 2
    /\ Len(priceHistory) = maxSize

\* C4: every sequence is at most as long as the capacity, and the price,
\* volume, timestamp, running-high and running-low sequences are equally long.
C4_Lengths ==
    /\ Len(priceHistory) <= maxSize
    /\ Len(volumeHistory) <= maxSize
    /\ Len(bidVolume) <= maxSize
    /\ Len(askVolume) <= maxSize
    /\ Len(timeStamps) <= maxSize
    /\ Len(highPrices) <= maxSize
    /\ Len(lowPrices) <= maxSize
    /\ Len(volumeHistory) = Len(priceHistory)
    /\ Len(timeStamps) = Len(priceHistory)
    /\ Len(highPrices) = Len(priceHistory)
    /\ Len(lowPrices) = Len(priceHistory)

\* A full store in which the latest price was neither a new high nor a new
\* low, so both running extrema were carried forward.
C4_Witness ==
    /\ Len(priceHistory) = maxSize
    /\ Len(arrived) > maxSize
    /\ F64Lt(Last(priceHistory), Last(highPrices))
    /\ F64Gt(Last(priceHistory), Last(lowPrices))

\* C5 as claimed: the bid-volume and the ask-volume sequence are as long as
\* the price sequence.
C5_BidAskParallel ==
    /\ Len(bidVolume) = Len(priceHistory)
    /\ Len(askVolume) = Len(priceHistory)

\* C5 as amended: a tick's volume is appended to exactly one of the two side
\* sequences, ask-volume for an ask and bid-volume otherwise, and the other
\* is left as it was; each of the two is at most as long as the price
\* sequence, and together they are at least as long.
C5_OneSidePerTick ==
    [][ /\ (fed' = fed + 1) =>
              LET tick  == lastTick'[1]
                  grown == IF tick.IsAsk THEN askVolume ELSE bidVolume
                  after == IF tick.IsAsk THEN askVolume' ELSE bidVolume'
              IN  /\ Len(after) = Min(Len(grown) + 1, maxSize)
                  /\ Last(after) = tick.Volume
                  /\ IF tick.IsAsk THEN bidVolume' = bidVolume
                                   ELSE askVolume' = askVolume
        /\ Len(bidVolume') <= Len(priceHistory')
        /\ Len(askVolume') <= Len(priceHistory')
        /\ Len(bidVolume') + Len(askVolume') >= Len(priceHistory') ]_vars

\* After an eviction from the price sequence, the bid-volume sequence is
\* shorter than the price sequence and the two side sequences together are
\* longer than it.
C5_Witness ==
    /\ Len(arrived) > maxSize
    /\ 0 < Len(bidVolume)
    /\ Len(bidVolume) < Len(priceHistory)
    /\ Len(bidVolume) + Len(askVolume) > Len(priceHistory)

\* C27: Reset leaves all seven sequences empty (HasMinimumData(1) false,
\* GetCurrentPrice 0) and the precision state cleared (roundNum 0,
\* prevPrice 0); the first AddTick of an empty store with cleared precision,
\* also one after a Reset, infers the precision from its own price and
\* rounds with it.
C27_ResetClears ==
    [][ /\ (pass' = pass + 1) =>
              /\ priceHistory' = <<>> /\ volumeHistory' = <<>>
              /\ timeStamps' = <<>> /\ highPrices' = <<>> /\ lowPrices' = <<>>
              /\ bidVolume' = <<>> /\ askVolume' = <<>>
              /\ ~(Len(priceHistory') >= 1)
              /\ (IF Len(priceHistory') = 0 THEN Zero ELSE Last(priceHistory'))
                     = Zero
              /\ roundNum' = 0
              /\ prevPrice' = Zero
        /\ (fed = 0 /\ fed' = 1) =>
              LET price == lastTick'[1].Price
              IN  /\ roundNum' = inferRoundNum(price)
                  /\ priceHistory' = <<round(price, inferRoundNum(price))>>
                  /\ prevPrice' = round(price, inferRoundNum(price)) ]_vars

\* C29: each AddTick makes the newest running high the maximum of the
\* previous newest high and the rounded price (the price itself on an empty
\* store) and the newest running low the minimum likewise; in every state
\* the retained highs are non-decreasing, the retained lows non-increasing,
\* and low[i] <= price[i] <= high[i] at every index.
C29_RunningExtrema ==
    /\ [](/\ \A i \in 1..Len(priceHistory) :
               /\ F64Le(lowPrices[i], priceHistory[i])
               /\ F64Le(priceHistory[i], highPrices[i])
          /\ \A i \in 1..(Len(highPrices) - 1) :
               F64Le(highPrices[i], highPrices[i + 1])
          /\ \A i \in 1..(Len(lowPrices) - 1) :
               F64Ge(lowPrices[i], lowPrices[i + 1]))
    /\ [][(fed' = fed + 1) =>
            LET price == Last(priceHistory')
            IN  /\ Last(highPrices') =
                      IF Len(highPrices) = 0 THEN price
                      ELSE F64Max(Last(highPrices), price)
                /\ Last(lowPrices') =
                      IF Len(lowPrices) = 0 THEN price
                      ELSE IF F64Lt(price, Last(lowPrices)) THEN price
                      ELSE Last(lowPrices)]_vars

\* A full store after eviction whose oldest retained price lies strictly
\* between its running low and high, followed by a new high and a new low.
C29_Witness ==
    /\ Len(arrived) > maxSize
    /\ Len(priceHistory) = maxSize
    /\ F64Lt(lowPrices[1], priceHistory[1])
    /\ F64Lt(priceHistory[1], highPrices[1])
    /\ F64Lt(highPrices[1], highPrices[2])
    /\ F64Gt(lowPrices[2], lowPrices[3])

\* After a Reset of a store that held ticks, one tick of price 7 has been
\* added and the precision is the 5 decimals of a one-digit price.
C27_Witness ==
    /\ pass = 1
    /\ fed = 1
    /\ lastTick = <<[Price |-> R(7), Volume |-> R(5), IsAsk |-> TRUE,
                     Timestamp |-> Clock(5)]>>
    /\ roundNum = 5
    /\ priceHistory = <<R(7)>>

---------------------------------------------------------------------------
(* SpecAnalyzer: a driver without a registered callback feeds one tick     *)
(* sequence through AddTick and ProcessTick, tick by tick, calls Reset     *)
(* after the whole sequence and feeds the same sequence again.             *)
(* The driver picks one of five sequences; with the first one it may also  *)
(* call SetWarmupTicks between any two steps.                              *)

AnalyzerCapacity == 31
MaxFeed          == 33
ShortWarmup      == 25
EarlyWarmup      == 10

\* Tick i of the first sequence: one price of 3, then prices of 1, volumes
\* 1 to 3 on alternating sides.
FeedTickAt(i) ==
    [Price     |-> IF i = 1 THEN R(3) ELSE One,
     Volume    |-> R(1 + (i % 3)),
     IsAsk     |-> i % 2 = 0,
     Timestamp |-> Clock(i)]

\* The tick sequences of the driver:
\*   "spike"  the sequence above;
\*   "flat"   every price 0.1;
\*   "climb"  100000000.0, 100000000.1, 100000000.2, ...: each price above
\*            the one before;
\*   "void"   one price of 0, then prices of 1;
\*   "short"  prices 100.5, 100.25, 100.5, ..., bid volumes of -3 (a sale
\*            reported as a negative quantity) and ask volumes of 1;
\*   "ramp"   prices 0.1, 0.2, 0.3, ...
Feeds == {"spike", "flat", "climb", "void", "short", "ramp"}

FeedOf(f, i) ==
    IF f = "spike" THEN FeedTickAt(i)
    ELSE IF f = "flat"
    THEN [FeedTickAt(i) EXCEPT !.Price = Q(1, 10)]
    ELSE IF f = "climb"
    THEN [FeedTickAt(i) EXCEPT !.Price = Q(1000000000 + (i - 1), 10)]
    ELSE IF f = "void"
    THEN [FeedTickAt(i) EXCEPT !.Price = IF i = 1 THEN Zero ELSE One]
    ELSE IF f = "ramp"
    THEN [FeedTickAt(i) EXCEPT !.Price = Q(i, 10)]
    ELSE [FeedTickAt(i) EXCEPT
             !.Price  = IF i % 2 = 1 THEN Q(201, 2) ELSE Q(401, 4),
             !.Volume = IF i % 2 = 0 THEN One ELSE R(-3)]

WarmupChoices == {EarlyWarmup, ShortWarmup, defaultWarmupTicks}

\* ProcessTick calls made in the current pass.
processed == Len(Last(snapshots))

\* The driver adds the next tick of its sequence; it picks the sequence
\* with the first tick and keeps it over a Reset.
FeedTick ==
    /\ fed < MaxFeed
    /\ processed = fed
    /\ \E f \in (IF lastInput = <<>> THEN Feeds ELSE {lastInput[1]}) :
          /\ AddTickCall("driver", FeedOf(f, fed + 1))
          /\ lastInput' = <<f>>
    /\ reached' = (reached \/ Len(priceHistory') >= warmupTicks)
    /\ UNCHANGED <<wsVars, lkVars, conns, tasks, anVars, stVars, stObs, pass,
                   snapshots>>

ProcessTick ==
    /\ processed < fed
    /\ pc = "idle"
    /\ CanRLock(mdMutex)
    /\ ProcessTickBody
    /\ UNCHANGED <<ccVars, mdVars, stVars, stObs, mdObs, fed, pass, reached, thVars>>

\* The driver of the first sequence also changes the warmup threshold.
SetWarmupTicks ==
    \E ticks \in WarmupChoices :
        /\ lastInput = <<"spike">>
        /\ ticks # warmupTicks
        /\ SetWarmupTicksBody(ticks)
        /\ reached' = (reached \/ Len(priceHistory) >= ticks)
        /\ UNCHANGED <<ccVars, mdVars, stVars, stObs, mdObs, fed, pass, snapshots, thVars>>

ReplayReset ==
    /\ fed = MaxFeed
    /\ processed = fed
    /\ pass < MaxResets
    /\ ResetBody
    /\ snapshots' = Append(snapshots, <<>>)
    /\ UNCHANGED <<ccVars, anVars, stVars, stObs, reached, thVars>>

InitAnalyzerSpec ==
    /\ InitStore(AnalyzerCapacity, FALSE)
    /\ InitAnalyzer
    /\ InitStrategy
    /\ InitObs

NextAnalyzer == FeedTick \/ ProcessTick \/ SetWarmupTicks \/ ReplayReset

SpecAnalyzer == InitAnalyzerSpec /\ [][NextAnalyzer]_vars

\* C6: the warmup flag is set only if the history length has reached the
\* warmup threshold (the one in force at that time) at some time, and once
\* set it stays set over every later step: AddTick with or without eviction,
\* ProcessTick, Reset and SetWarmupTicks.
C6_WarmupLatch ==
    /\ [](warmupComplete => reached)
    /\ [][warmupComplete => warmupComplete']_vars

\* The flag is still set after the store has evicted, Reset has emptied the
\* history and SetWarmupTicks has raised the threshold.
C6_Witness ==
    /\ warmupComplete
    /\ pass >= 1
    /\ Len(priceHistory) = 0
    /\ warmupTicks = defaultWarmupTicks

\* C25: as long as no recompute has taken place (the trend-strength window
\* has received no value), GetMetrics returns 0.5 for RelativeStrength,
\* OrderImbalance and MarketEfficiencyRatio and 0 for RealizedVolatility,
\* ATR, TrendStrength and AvgTrendStrength.
C25_NeutralDefaults ==
    trendStrengthWindow = <<>> =>
        /\ GetMetrics.RelativeStrength = Q(1, 2)
        /\ GetMetrics.OrderImbalance = Q(1, 2)
        /\ GetMetrics.MarketEfficiencyRatio = Q(1, 2)
        /\ GetMetrics.RealizedVolatility = F64Zero(0)
        /\ GetMetrics.ATR = F64Zero(0)
        /\ GetMetrics.TrendStrength = F64Zero(0)
        /\ GetMetrics.AvgTrendStrength = F64Zero(0)

\* C7: in every pass after a Reset, the snapshot ProcessTick returns for
\* tick i equals the snapshot it returned for tick i in the first pass.
C7_ReplayDeterministic ==
    \A p \in 2..Len(snapshots) :
        \A i \in 1..Len(snapshots[p]) : snapshots[p][i] = snapshots[1][i]

\* C28: a ProcessTick on a history of fewer than 20 prices returns nil and
\* leaves the seven metric fields, the trend-strength window and the warmup
\* flag as they were, also when the history has reached the warmup
\* threshold; on a history of at least 20 prices it returns the new metrics,
\* each of which is its formula applied to the whole history the store holds
\* now: the volatility and the relative strength of all its returns, the
\* ATR, the order imbalance of all its volumes, the trend strength and the
\* efficiency ratio of its prices, and the mean of the trend-strength window
\* with the new trend strength appended.
C28_MinimumHistory ==
    [][(pass' = pass /\ Len(Last(snapshots')) = Len(Last(snapshots)) + 1) =>
         IF Len(priceHistory) < minimumTicks
         THEN /\ Last(Last(snapshots')) = <<>>
              /\ metrics' = metrics
              /\ trendStrengthWindow' = trendStrengthWindow
              /\ warmupComplete' = warmupComplete
         ELSE /\ Last(Last(snapshots')) = <<metrics'>>
              /\ metrics'.RealizedVolatility =
                     realizedVolatility(returnsOf(priceHistory))
              /\ metrics'.RelativeStrength =
                     calculateRelativeStrength(returnsOf(priceHistory))
              /\ metrics'.ATR =
                     calculateATR(priceHistory, highPrices,
                                  lowPrices, metrics)
              /\ metrics'.OrderImbalance =
                     calculateOrderImbalance(bidVolume,
                                             askVolume)
              /\ metrics'.TrendStrength =
                     calculateTrendStrength(priceHistory)
              /\ metrics'.MarketEfficiencyRatio =
                     calculateMarketEfficiencyRatio(priceHistory)
              /\ trendStrengthWindow' =
                     updateTrendWindow(trendStrengthWindow,
                                       metrics'.TrendStrength)
              /\ metrics'.AvgTrendStrength =
                     averageTrendStrength(trendStrengthWindow')]_vars

\* In the pass after a Reset the history is back below 20 prices and has
\* reached the warmup threshold of 10; ProcessTick has returned nil for every
\* tick of the pass, the metrics are those of the pass before and the warmup
\* flag is not set.
C28_Witness ==
    /\ pass = 1
    /\ processed = fed
    /\ Len(priceHistory) >= EarlyWarmup
    /\ Len(priceHistory) < minimumTicks
    /\ warmupTicks = EarlyWarmup
    /\ ~warmupComplete
    /\ \A i \in 1..processed : Last(snapshots)[i] = <<>>
    /\ metrics # NewMarketMetrics
    /\ Len(trendStrengthWindow) > 0

\* The latest tick has been processed and the metrics were recomputed from
\* the history as it is now.
recomputed == processed = fed /\ HasMinimumData(minimumTicks)

\* The last k stored prices rise (fall) from each one to the next.
rising(k) ==
    /\ Len(priceHistory) >= k
    /\ \A i \in (Len(priceHistory) - k + 1)..(Len(priceHistory) - 1) :
           F64Lt(priceHistory[i], priceHistory[i + 1])

falling(k) ==
    /\ Len(priceHistory) >= k
    /\ \A i \in (Len(priceHistory) - k + 1)..(Len(priceHistory) - 1) :
           F64Gt(priceHistory[i], priceHistory[i + 1])

inUnitInterval(x) == F64Ge(x, F64Zero(0)) /\ F64Le(x, F64OfInt(1))

\* C22: whatever prices and volumes the store holds, the RelativeStrength
\* and the OrderImbalance the analyzer holds lie in [0, 1].
C22_RatiosInUnitInterval ==
    /\ inUnitInterval(metrics.RelativeStrength)
    /\ inUnitInterval(metrics.OrderImbalance)

\* C23: after a recompute on a history whose last 30 prices are strictly
\* increasing TrendStrength > 0, and on one whose last 30 prices are
\* strictly decreasing TrendStrength < 0.
C23_TrendSign ==
    recomputed =>
        /\ rising(trendPrices) => F64Gt(metrics.TrendStrength, F64Zero(0))
        /\ falling(trendPrices) => F64Lt(metrics.TrendStrength, F64Zero(0))

\* C24: after a recompute on a history of at least 30 ticks of one price,
\* RealizedVolatility = 0, TrendStrength = 0 and MarketEfficiencyRatio = 0.5.
C24_ConstantSeries ==
    (/\ recomputed
     /\ Len(priceHistory) >= trendPrices
     /\ \A i \in 1..Len(priceHistory) : priceHistory[i] = priceHistory[1]) =>
        /\ F64Eq(metrics.RealizedVolatility, F64Zero(0))
        /\ F64Eq(metrics.TrendStrength, F64Zero(0))
        /\ F64Eq(metrics.MarketEfficiencyRatio, Q(1, 2))

\* C26: after a recompute on a history in which a price that some return
\* is divided by is 0, the metrics computed from the returns
\* (RealizedVolatility, RelativeStrength) are numbers, not the NaN or
\* infinity a division by zero leaves, and RelativeStrength lies in [0, 1];
\* likewise TrendStrength where the 30 prices it divides by the mean of
\* are all 0.
C26_GuardedDivisions ==
    recomputed =>
        /\ (\E i \in 1..(Len(priceHistory) - 1) : priceHistory[i] = Zero) =>
              /\ metrics.RealizedVolatility.k = "fin"
              /\ inUnitInterval(metrics.RelativeStrength)
        /\ (/\ Len(priceHistory) >= trendPrices
            /\ \A i \in 1..Len(priceHistory) : priceHistory[i] = Zero) =>
              F64Eq(metrics.TrendStrength, F64Zero(0))

\* The stored price `back` places before the last one, as a float64.
priceBack(back) == priceHistory[Len(priceHistory) - back]

\* The sum of the absolute values of the price deltas between the prices
\* `older` and `newer` places before the last one, added from the oldest
\* delta to the newest.
RECURSIVE pathBetween(_, _)
pathBetween(older, newer) ==
    IF older = newer THEN F64Zero(0)
    ELSE F64Add(pathBetween(older, newer + 1),
                F64Abs(F64Sub(priceBack(newer), priceBack(newer + 1))))

\* The efficiency ratio the claim describes: the net movement between the
\* last price and the one `span` places before it, over the path of the last
\* 29 deltas; 0.5 where that path is 0.
efficiencyOver(span) ==
    IF F64Eq(pathBetween(efficiencyPrices - 1, 0), F64Zero(0))
    THEN Q(1, 2)
    ELSE F64Div(F64Abs(F64Sub(priceBack(0), priceBack(span))),
                pathBetween(efficiencyPrices - 1, 0))

\* C31 as stated: after a recompute on fewer than 30 prices the
\* MarketEfficiencyRatio is 0.5; on a history that holds the price 30 places
\* before the last one, it is |price[last] - price[last-30]| over the sum of
\* the absolute values of the last 29 deltas, and 0.5 where that sum is 0.
C31_NetOverThirty ==
    recomputed =>
        /\ Len(priceHistory) < efficiencyPrices =>
               metrics.MarketEfficiencyRatio = Q(1, 2)
        /\ Len(priceHistory) > efficiencyPrices =>
               metrics.MarketEfficiencyRatio = efficiencyOver(efficiencyPrices)

\* C31, amended: after a recompute on fewer than 30 prices the
\* MarketEfficiencyRatio is 0.5; on at least 30 prices it is
\* |price[last] - price[last-29]|, the net movement over the last 30 prices,
\* over the sum of the absolute values of the 29 deltas between them, and
\* 0.5 where that sum is 0.
C31_NetOverPath ==
    recomputed =>
        /\ Len(priceHistory) < efficiencyPrices =>
               metrics.MarketEfficiencyRatio = Q(1, 2)
        /\ Len(priceHistory) >= efficiencyPrices =>
               metrics.MarketEfficiencyRatio =
                   efficiencyOver(efficiencyPrices - 1)

\* A recompute on 31 prices whose first two differ and whose path is not 0:
\* the ratio is neither the default nor 0.
C31_Witness ==
    /\ recomputed
    /\ Len(priceHistory) > efficiencyPrices
    /\ priceBack(efficiencyPrices) # priceBack(efficiencyPrices - 1)
    /\ ~F64Eq(pathBetween(efficiencyPrices - 1, 0), F64Zero(0))
    /\ metrics.MarketEfficiencyRatio # Q(1, 2)
    /\ F64Gt(metrics.MarketEfficiencyRatio, F64Zero(0))

\* The mean of a window of float64 values: their sum from the first to the
\* last, divided by their number.
RECURSIVE totalOf(_, _)
totalOf(w, k) == IF k = 0 THEN F64Zero(0) ELSE F64Add(totalOf(w, k - 1), w[k])

meanOf(w) == F64Div(totalOf(w, Len(w)), F64OfInt(Len(w)))

\* C32: the trend-strength window never holds more than 20 values; a
\* recompute appends the new TrendStrength, and with 20 values in the window
\* the oldest one leaves and the other 19 keep their order; after the
\* recompute, and until the next one, AvgTrendStrength is the mean of the
\* values in the window if there are at least 7 of them and 0 otherwise.
C32_TrendWindow ==
    /\ [](Len(trendStrengthWindow) <= trendWindowCapacity)
    /\ [](Len(trendStrengthWindow) > 0 =>
            metrics.AvgTrendStrength =
                IF Len(trendStrengthWindow) >= minTrendValues
                THEN meanOf(trendStrengthWindow) ELSE F64Zero(0))
    /\ [][trendStrengthWindow' # trendStrengthWindow \/ metrics' # metrics =>
            /\ Last(Last(snapshots')) = <<metrics'>>
            /\ Last(trendStrengthWindow') = metrics'.TrendStrength
            /\ IF Len(trendStrengthWindow) < trendWindowCapacity
               THEN SubSeq(trendStrengthWindow', 1, Len(trendStrengthWindow')- 1)
                        = trendStrengthWindow
               ELSE SubSeq(trendStrengthWindow', 1, trendWindowCapacity - 1)
                        = SubSeq(trendStrengthWindow, 2, trendWindowCapacity)]_vars

\* The window is full and has given up its oldest values (more than 20
\* recomputes have taken place over two passes); it holds the non-zero trend
\* strength of the thirtieth tick of the first pass and the average is a
\* number other than 0.
C32_Witness ==
    /\ pass = 1
    /\ processed = fed
    /\ fed >= minimumTicks + minTrendValues
    /\ Len(trendStrengthWindow) = trendWindowCapacity
    /\ metrics.AvgTrendStrength.k = "fin"
    /\ ~F64Eq(metrics.AvgTrendStrength, F64Zero(0))
    /\ trendStrengthWindow[1] # trendStrengthWindow[trendWindowCapacity]

\* The true ranges of the 14 samples calculateATR averages, as it pairs
\* them: high and low of a tick with the price of the tick before.
sampleHigh(i)  == highPrices[Len(highPrices) - period + i]
sampleLow(i)   == lowPrices[Len(lowPrices) - period + i]
sampleClose(i) == priceHistory[Len(priceHistory) - period - 1 + i]

\* The ATR of the k-th snapshot of a pass, if ProcessTick returned one.
atrAt(run, k) == run[k][1].ATR

\* C35: after a recompute every true range of calculateATR equals running
\* high - running low of its tick (neither distance to the previous price
\* exceeds it); and between two Resets of the store every ATR returned is
\* non-negative and not below the ATR returned for the tick before.
C35_ATRNeverDecreases ==
    /\ recomputed =>
          \A i \in 1..period :
              trueRange(sampleHigh(i), sampleLow(i), sampleClose(i))
                  = F64Sub(sampleHigh(i), sampleLow(i))
    /\ \A p \in 1..Len(snapshots) :
          \A k \in 1..Len(snapshots[p]) :
              snapshots[p][k] # <<>> =>
                  /\ F64Ge(atrAt(snapshots[p], k), F64Zero(0))
                  /\ (k > 1 /\ snapshots[p][k - 1] # <<>>) =>
                        F64Ge(atrAt(snapshots[p], k), atrAt(snapshots[p], k - 1))

\* C35 witness: in the pass after a Reset, with the oldest ticks evicted,
\* the ATR has grown from a positive value to a larger one while the
\* previous price lay strictly between the running low and the running high.
C35_Witness ==
    /\ pass = 1 /\ recomputed /\ fed > maxSize
    /\ F64Gt(atrAt(Last(snapshots), fed - 1), F64Zero(0))
    /\ F64Gt(atrAt(Last(snapshots), fed), atrAt(Last(snapshots), fed - 1))
    /\ F64Lt(sampleLow(period), sampleClose(period))
    /\ F64Lt(sampleClose(period), sampleHigh(period))

\* C38: after a recompute on a history of at least 30 prices the
\* MarketEfficiencyRatio lies in [0, 1].
C38_EfficiencyInUnitInterval ==
    (recomputed /\ Len(priceHistory) >= efficiencyPrices) =>
        inUnitInterval(metrics.MarketEfficiencyRatio)

\* C40: a ProcessTick call that recomputes the metrics finds at least 20
\* prices, 20 running highs and 20 running lows in the store, so that
\* calculateATR takes its 14-sample branch with prices[len-15 : len-1] inside
\* the array; the ATR it leaves is the mean of the 14 true ranges, never the
\* volatility proxy of the short-history branch.
C40_FourteenSamples ==
    [][ (snapshots' # snapshots /\ Len(snapshots') = Len(snapshots)
              /\ Last(Last(snapshots')) # <<>>) =>
            /\ Len(priceHistory) >= minimumTicks
            /\ Len(highPrices) >= minimumTicks
            /\ Len(lowPrices) >= minimumTicks
            /\ Len(priceHistory) - period - 1 >= 0
            /\ metrics'.ATR =
                   F64Div(Sum([i \in 1..period |->
                                  trueRange(sampleHigh(i), sampleLow(i),
                                            sampleClose(i))]),
                          F64OfInt(period)) ]_vars

\* C40 witness: the first recompute after a Reset, on exactly 20 prices,
\* with a positive ATR.
C40_Witness ==
    /\ pass = 1
    /\ recomputed
    /\ Len(priceHistory) = minimumTicks
    /\ Len(highPrices) = minimumTicks
    /\ F64Gt(metrics.ATR, F64Zero(0))

---------------------------------------------------------------------------
(* SpecManager: the pipeline after Manager.Initialize, which registers the *)
(* tick callback; the ingestion goroutine calls AddTick for each tick.     *)

ManagerTicks ==
    { [Price |-> R(p), Volume |-> R(v), IsAsk |-> a, Timestamp |-> Clock(t)] :
        p \in 99..103, v \in 1..3, a \in BOOLEAN, t \in 1..2 }

\* AddTick up to the invocation of the callback.
IngestTick ==
    \E tick \in ManagerTicks :
        /\ AddTickCall("ingest", tick)
        /\ reached' = (reached \/ Len(priceHistory') >= warmupTicks)
        /\ UNCHANGED <<ccVars, anVars, stVars, stObs, pass, snapshots>>

\* The callback of setupCallbacks, run inside AddTick.  Its first statement,
\* ProcessTick's HasMinimumData(20), takes md.mutex.RLock(): with the lock
\* free of a writer the callback runs to its end and AddTick returns and
\* unlocks; otherwise the goroutine blocks in RLock.  AddTick is the only
\* caller and holds the write lock, so in SpecManager the callback always
\* blocks and the test before GenerateSignal is never reached.
TickCallback ==
    /\ pc = "callback"
    /\ IF CanRLock(mdMutex)
       THEN /\ ProcessTickBody
            /\ IF Last(Last(snapshots')) # <<>> /\ warmupComplete'
               THEN GenerateSignalBody(curTick[1].Price, curTick[1].Timestamp,
                                       metrics')
               ELSE UNCHANGED <<stVars, stObs>>
            /\ mdMutex' = NoLock
            /\ pc' = "idle"
            /\ curTick' = <<>>
            /\ UNCHANGED <<ccVars, priceHistory, volumeHistory, bidVolume, askVolume,
                           timeStamps, highPrices, lowPrices, maxSize, roundNum,
                           prevPrice, tickCallback, mdObs, fed, pass, reached>>
       ELSE /\ pc' = "blocked"
            /\ UNCHANGED <<ccVars, mdVars, anVars, stVars, stObs, mdObs, anObs, curTick>>

InitManagerSpec ==
    /\ InitStore(AnalyzerCapacity, TRUE)
    /\ InitAnalyzer
    /\ InitStrategy
    /\ InitObs

NextManager == IngestTick \/ TickCallback

SpecManager == InitManagerSpec /\ [][NextManager]_vars

\* C2: the callback never blocks on the store lock that the AddTick call
\* running it holds, so every AddTick call returns.
C2_CallbackNeverBlocks ==
    ~(pc = "blocked" /\ mdMutex.writer = "ingest")

---------------------------------------------------------------------------
(* SpecEntry: GenerateSignal calls whose metrics lie on, just inside and   *)
(* just outside each entry threshold, on a Strategy that can also close a  *)
(* position and open the next one.                                         *)

\* The ticks the calls are made for: a price and a time each.
EntryTicks ==
    { [price |-> R(100), time |-> Clock(60)],
      [price |-> R(101), time |-> Clock(120)] }

\* EntryMetrics with one field moved to a threshold or just across it, with
\* a NaN field, and the metrics a new Analyzer starts with.
EntryCallMetrics ==
    { EntryMetrics, ReversalMetrics, NewMarketMetrics,
      [EntryMetrics EXCEPT !.RealizedVolatility = Q(7, 10)],
      [EntryMetrics EXCEPT !.RealizedVolatility = Q(8, 10)],
      [EntryMetrics EXCEPT !.RealizedVolatility = Q(35, 100)],
      [EntryMetrics EXCEPT !.RealizedVolatility = Q(3, 10)],
      [EntryMetrics EXCEPT !.RelativeStrength = Q(75, 100)],
      [EntryMetrics EXCEPT !.RelativeStrength = Q(76, 100)],
      [EntryMetrics EXCEPT !.RelativeStrength = Q(25, 100)],
      [EntryMetrics EXCEPT !.RelativeStrength = Q(24, 100)],
      [EntryMetrics EXCEPT !.RelativeStrength = NaN],
      [EntryMetrics EXCEPT !.TrendStrength = R(5)],
      [EntryMetrics EXCEPT !.TrendStrength = Q(49, 10), !.AvgTrendStrength = R(3)],
      [EntryMetrics EXCEPT !.TrendStrength = NaN],
      [EntryMetrics EXCEPT !.AvgTrendStrength = R(3)],
      [EntryMetrics EXCEPT !.AvgTrendStrength = Q(29, 10)],
      [EntryMetrics EXCEPT !.AvgTrendStrength = R(6)],
      [EntryMetrics EXCEPT !.AvgTrendStrength = R(7)],
      [EntryMetrics EXCEPT !.OrderImbalance = Q(65, 100)],
      [EntryMetrics EXCEPT !.OrderImbalance = Q(64, 100)],
      [EntryMetrics EXCEPT !.MarketEfficiencyRatio = Q(93, 100)],
      [EntryMetrics EXCEPT !.MarketEfficiencyRatio = Q(92, 100)] }

EntryCall ==
    \E tick \in EntryTicks, m \in EntryCallMetrics :
        /\ Len(emitted) < MaxSignals
        /\ GenerateSignalBody(tick.price, tick.time, m)
        /\ UNCHANGED <<ccVars, mdVars, anVars, mdObs, anObs, thVars>>

InitEntrySpec ==
    /\ InitStore(StoreCapacity, FALSE)
    /\ InitAnalyzer
    /\ InitStrategy
    /\ InitObs

NextEntry == EntryCall

SpecEntry == InitEntrySpec /\ [][NextEntry]_vars

\* The bounds of the entry predicates: volatility within [0.35, 0.70],
\* relative strength within [0.25, 0.75], trend strength at least 5 and
\* its average at least 3, order imbalance at least 0.65, efficiency ratio
\* at least 0.93.
volatilityRange == <<Q(7, 20), Q(7, 10)>>
strengthRange   == <<Q(1, 4), Q(3, 4)>>
minTrend        == R(5)
minAvgTrend     == R(3)
minImbalance    == Q(13, 20)
minMER          == Q(93, 100)

\* The entry predicates as the claim lists them.
allEntryPredicatesHold(m) ==
    /\ F64Ge(m.RealizedVolatility, volatilityRange[1])
    /\ F64Le(m.RealizedVolatility, volatilityRange[2])
    /\ F64Ge(m.RelativeStrength, strengthRange[1])
    /\ F64Le(m.RelativeStrength, strengthRange[2])
    /\ F64Ge(m.TrendStrength, minTrend)
    /\ F64Ge(m.AvgTrendStrength, minAvgTrend)
    /\ F64Gt(m.TrendStrength, m.AvgTrendStrength)
    /\ F64Ge(m.OrderImbalance, minImbalance)
    /\ F64Ge(m.MarketEfficiencyRatio, minMER)

\* C12: a GenerateSignal(price, t, m) call made while no position is open
\* returns BUY exactly when every entry predicate holds for m; on BUY the
\* trade becomes active with entry price = highest = lowest = price and
\* entry time = t; otherwise it returns nothing and leaves the trade as it is.
C12_EntryIffPredicates ==
    [][ (~activeTrade.Active /\ lastCall' # <<>>) =>
          LET c == lastCall'[1]
          IN  IF allEntryPredicatesHold(c.metrics)
              THEN /\ signal' = <<NewBuySignal(c.price, c.time, c.metrics)>>
                   /\ emitted' = Append(emitted, "BUY")
                   /\ activeTrade'.Active
                   /\ activeTrade'.EntryPrice = c.price
                   /\ activeTrade'.EntryTime = c.time
                   /\ activeTrade'.HighestPrice = c.price
                   /\ activeTrade'.LowestPrice = c.price
              ELSE /\ signal' = <<>>
                   /\ emitted' = emitted
                   /\ activeTrade' = activeTrade ]_vars

\* A second position opened at 100 after the first was closed at a profit,
\* that is, with an earlier highest price above 100.
C12_Witness ==
    /\ emitted = <<"BUY", "CLOSE", "BUY">>
    /\ signal # <<>>
    /\ signal[1].Action = "BUY"
    /\ activeTrade.HighestPrice = R(100)
    /\ activeTrade.LowestPrice = R(100)


\* The smaller of two prices, as the second test of checkExitConditions
\* leaves it.
lowerOf(lowest, price) == IF F64Lt(price, lowest) THEN price ELSE lowest

\* C30: an entry sets the entry price, the highest and the lowest price to
\* the price of the call; every exit evaluation that leaves the position open
\* keeps the entry price and makes highest the maximum and lowest the minimum
\* of its previous value and the price of the call; so in every state with
\* an open position lowest <= entry price <= highest and
\* lowest <= price of the latest call <= highest.
C30_ExtremaSinceEntry ==
    /\ [](activeTrade.Active =>
            /\ F64Le(activeTrade.LowestPrice, activeTrade.EntryPrice)
            /\ F64Le(activeTrade.EntryPrice, activeTrade.HighestPrice)
            /\ F64Le(activeTrade.LowestPrice, lastCall[1].price)
            /\ F64Le(lastCall[1].price, activeTrade.HighestPrice))
    /\ [][activeTrade'.Active =>
            IF activeTrade.Active
            THEN /\ activeTrade'.EntryPrice = activeTrade.EntryPrice
                 /\ activeTrade'.HighestPrice =
                        F64Max(activeTrade.HighestPrice, lastCall'[1].price)
                 /\ activeTrade'.LowestPrice =
                        lowerOf(activeTrade.LowestPrice, lastCall'[1].price)
            ELSE /\ activeTrade'.EntryPrice = lastCall'[1].price
                 /\ activeTrade'.HighestPrice = lastCall'[1].price
                 /\ activeTrade'.LowestPrice = lastCall'[1].price]_vars

\* An open position entered at 101 whose later evaluations at 100 and at 102
\* left it open: the latest price lies strictly between lowest and highest.
C30_Witness ==
    /\ activeTrade.Active
    /\ activeTrade.EntryPrice = R(101)
    /\ activeTrade.LowestPrice = R(100)
    /\ activeTrade.HighestPrice = R(102)
    /\ lastCall[1].price = R(101)
    /\ lastEval # <<>>
---------------------------------------------------------------------------
(* SpecSignalTasks: two goroutines call GenerateSignal on one Strategy.    *)
(* A call is the steps of part_003:30-40: s.mutex.Lock(), the test of      *)
(* Active, the check chosen by the test, and the deferred Unlock.          *)

MaxCalls == 2

SignalTasks   == {"t1", "t2"}
SignalPrices  == {R(100), R(102)}
SignalTimes   == {Clock(60)}
SignalMetrics == {EntryMetrics, ReversalMetrics}

idleSignalTask ==
    [pc |-> "idle", args |-> <<>>, atCall |-> FALSE, branch |-> FALSE,
     got |-> <<>>, calls |-> 0]

\* The goroutine calls GenerateSignal(price, timestamp, m) and arrives at
\* s.mutex.Lock(); atCall observes whether a position is open at that time.
SignalCall ==
    \E t \in SignalTasks, price \in SignalPrices, timestamp \in SignalTimes,
       m \in SignalMetrics :
        /\ tasks[t].pc = "idle"
        /\ tasks[t].calls < MaxCalls
        /\ tasks' = [tasks EXCEPT ![t].pc = "lock",
                        ![t].args = [price |-> price, time |-> timestamp,
                                     metrics |-> m],
                        ![t].atCall = activeTrade.Active,
                        ![t].got = <<>>]
        /\ UNCHANGED <<mdVars, anVars, stVars, stObs, mdObs, anObs, thVars,
                       wsVars, lkVars, conns, lastInput>>

SignalLock ==
    \E t \in SignalTasks :
        /\ tasks[t].pc = "lock"
        /\ CanLock(stMutex)
        /\ stMutex' = [stMutex EXCEPT !.writer = t]
        /\ tasks' = [tasks EXCEPT ![t].pc = "test"]
        /\ UNCHANGED <<mdVars, anVars, stVars, stObs, mdObs, anObs, thVars,
                       wsVars, anMutex, logMutex, conns, lastInput>>

\* if s.activeTrade.Active
SignalTest ==
    \E t \in SignalTasks :
        /\ tasks[t].pc = "test"
        /\ tasks' = [tasks EXCEPT ![t].pc = "check",
                                  ![t].branch = inPosition(activeTrade)]
        /\ UNCHANGED <<mdVars, anVars, stVars, stObs, mdObs, anObs, thVars,
                       wsVars, lkVars, conns, lastInput>>

\* return s.checkExitConditions(...) or return s.checkEntryConditions(...)
SignalCheck ==
    \E t \in SignalTasks :
        /\ tasks[t].pc = "check"
        /\ lastCall' = <<tasks[t].args>>
        /\ IF tasks[t].branch
           THEN checkExitConditions(tasks[t].args.price, tasks[t].args.time,
                                    tasks[t].args.metrics)
           ELSE checkEntryConditions(tasks[t].args.price, tasks[t].args.time,
                                     tasks[t].args.metrics)
        /\ tasks' = [tasks EXCEPT ![t].pc = "unlock", ![t].got = signal']
        /\ UNCHANGED <<mdVars, anVars, mdObs, anObs, thVars, wsVars, lkVars,
                       conns, lastInput>>

\* The deferred s.mutex.Unlock() and the return to the caller.
SignalUnlock ==
    \E t \in SignalTasks :
        /\ tasks[t].pc = "unlock"
        /\ stMutex' = NoLock
        /\ tasks' = [tasks EXCEPT ![t].pc = "idle", ![t].calls = @ + 1]
        /\ UNCHANGED <<mdVars, anVars, stVars, stObs, mdObs, anObs, thVars,
                       wsVars, anMutex, logMutex, conns, lastInput>>

InitSignalTasks ==
    /\ InitStore(StoreCapacity, FALSE)
    /\ InitAnalyzer
    /\ InitStrategy
    /\ signal = <<>> /\ emitted = <<>> /\ lastCall = <<>> /\ lastEval = <<>>
    /\ arrived = <<>> /\ lastTick = <<>>
    /\ fed = 0 /\ pass = 0 /\ snapshots = <<<<>>>> /\ reached = FALSE
    /\ pc = "idle" /\ curTick = <<>>
    /\ anMutex = NoLock /\ stMutex = NoLock /\ logMutex = NoLock
    /\ conns = <<>>
    /\ lastInput = <<>>
    /\ tasks = [t \in SignalTasks |-> idleSignalTask]

NextSignalTasks ==
    SignalCall \/ SignalLock \/ SignalTest \/ SignalCheck \/ SignalUnlock

SpecSignalTasks == InitSignalTasks /\ [][NextSignalTasks]_vars

\* C14: with two goroutines calling GenerateSignal, the check a call runs is
\* the one for the position as it is when the check runs, the emitted signals
\* alternate BUY, CLOSE, BUY, ... (never two BUYs for no position, never two
\* CLOSEs for one position), and a call that was issued with no position open
\* but runs after another call's BUY is evaluated as an exit check.
C14_AtomicDecision ==
    /\ \A t \in SignalTasks :
          tasks[t].pc = "check" => tasks[t].branch = activeTrade.Active
    /\ \A i \in 1..Len(emitted) :
          emitted[i] = IF i % 2 = 1 THEN "BUY" ELSE "CLOSE"
    /\ activeTrade.Active = (Len(emitted) % 2 = 1)
    /\ \A t \in SignalTasks :
          (tasks[t].pc = "unlock" /\ tasks[t].branch) =>
              (tasks[t].got = <<>> \/ tasks[t].got[1].Action = "CLOSE")

\* Both calls were issued with no position open and with metrics that meet
\* the entry predicates; t1 returned the BUY and t2 ran the exit check.
C14_Witness ==
    /\ emitted = <<"BUY">>
    /\ tasks["t1"].calls = 1 /\ tasks["t1"].got # <<>>
    /\ tasks["t1"].got[1].Action = "BUY"
    /\ ~tasks["t1"].atCall
    /\ tasks["t2"].calls = 0 /\ tasks["t2"].pc = "unlock"
    /\ ~tasks["t2"].atCall /\ tasks["t2"].branch
    /\ checkBuyConditions(tasks["t2"].args.metrics)
    /\ tasks["t2"].got = <<>>

---------------------------------------------------------------------------
(* SpecMetricsTasks: after SetWarmupTicks has configured an early warmup,  *)
(* one goroutine feeds ticks and calls ProcessTick after each, a second    *)
(* goroutine calls GetMetrics at any time.  ProcessTick is the sections of *)
(* a.mutex it goes through, with the releases between them: the run of     *)
(* calculateMetrics (Lock), the warmup latch (Lock) and its own call of    *)
(* GetMetrics (RLock).  The assignments to the seven fields of a.metrics   *)
(* at the end of calculateMetrics, and the seven field reads of            *)
(* GetMetrics, are one step each.                                          *)

\* The fields in the order both functions go through them.
MetricFields ==
    <<"RealizedVolatility", "ATR", "RelativeStrength", "OrderImbalance",
      "TrendStrength", "AvgTrendStrength", "MarketEfficiencyRatio">>

setField(m, i, from) == [m EXCEPT ![MetricFields[i]] = from[MetricFields[i]]]

\* &types.MarketMetrics{} before any field of the literal is evaluated.
emptyMetrics ==
    [f \in {MetricFields[i] : i \in 1..Len(MetricFields)} |-> F64Zero(0)]

idleWriter ==
    [pc |-> "idle", computed |-> <<>>, i |-> 0, copy |-> <<>>,
     completed |-> {NewMarketMetrics}]

idleReader == [pc |-> "idle", copy |-> <<>>, i |-> 0, got |-> <<>>]

\* Where a goroutine stands in its GetMetrics call: w makes the call at the
\* end of ProcessTick, r whenever it is idle.
getPc(t) ==
    IF t = "w"
    THEN [call |-> "get", copy |-> "getcopy", unlock |-> "getunlock"]
    ELSE [call |-> "idle", copy |-> "copy", unlock |-> "unlock"]

\* a.SetWarmupTicks(EarlyWarmup), called once before the first tick is fed:
\* Lock, the assignment and the deferred Unlock.
ConfigureWarmup ==
    /\ fed = 0
    /\ tasks["w"].pc = "idle"
    /\ warmupTicks = defaultWarmupTicks
    /\ CanLock(anMutex)
    /\ SetWarmupTicksBody(EarlyWarmup)
    /\ UNCHANGED <<mdVars, stVars, stObs, mdObs, anObs, thVars, wsVars, lkVars,
                   conns, tasks, lastInput>>

\* md.AddTick(tick) by the feeding goroutine, which then calls ProcessTick.
MetricsFeed ==
    /\ tasks["w"].pc = "idle"
    /\ fed < MaxFeed
    /\ AddTickCall("w", FeedTickAt(fed + 1))
    /\ reached' = (reached \/ Len(priceHistory') >= warmupTicks)
    /\ tasks' = [tasks EXCEPT !["w"].pc = "process"]
    /\ UNCHANGED <<anVars, stVars, stObs, pass, snapshots, wsVars, lkVars,
                   conns, lastInput>>

\* ProcessTick up to a.mutex.Lock() in calculateMetrics: nil below 20 prices.
ProcessStart ==
    /\ tasks["w"].pc = "process"
    /\ IF ~HasMinimumData(minimumTicks)
       THEN /\ snapshots' = recordSnapshot(snapshots, <<>>)
            /\ tasks' = [tasks EXCEPT !["w"].pc = "idle"]
       ELSE /\ tasks' = [tasks EXCEPT !["w"].pc = "lock"]
            /\ UNCHANGED snapshots
    /\ UNCHANGED <<mdVars, anVars, stVars, stObs, mdObs, fed, pass, reached,
                   thVars, wsVars, lkVars, conns, lastInput>>

CalcLock ==
    /\ tasks["w"].pc = "lock"
    /\ CanLock(anMutex)
    /\ anMutex' = [anMutex EXCEPT !.writer = "w"]
    /\ tasks' = [tasks EXCEPT !["w"].pc = "compute"]
    /\ UNCHANGED <<mdVars, anVars, stVars, stObs, mdObs, anObs, thVars, wsVars,
                   stMutex, logMutex, conns, lastInput>>

\* calculateMetrics from GetPriceArray to the market efficiency ratio: the
\* values are locals, the trend-strength window is updated in place.
CalcCompute ==
    /\ tasks["w"].pc = "compute"
    /\ \E c \in {calculateMetrics(priceHistory, highPrices,
                                  lowPrices, bidVolume,
                                  askVolume, trendStrengthWindow,
                                  metrics)} :
          /\ trendStrengthWindow' = c.window
          /\ tasks' = [tasks EXCEPT !["w"].pc = "write",
                                    !["w"].computed = c.metrics,
                                    !["w"].i = 1]
    /\ UNCHANGED <<mdVars, metrics, warmupTicks, warmupComplete, stVars, stObs,
                   mdObs, anObs, thVars, wsVars, lkVars, conns, lastInput>>

\* a.metrics.<field i> = <local i>
CalcWrite ==
    /\ tasks["w"].pc = "write"
    /\ metrics' = setField(metrics, tasks["w"].i, tasks["w"].computed)
    /\ tasks' = [tasks EXCEPT
                    !["w"].i = @ + 1,
                    !["w"].pc = IF tasks["w"].i = Len(MetricFields)
                                THEN "unlock" ELSE "write"]
    /\ UNCHANGED <<mdVars, trendStrengthWindow, warmupTicks, warmupComplete,
                   stVars, stObs, mdObs, anObs, thVars, wsVars, lkVars, conns,
                   lastInput>>

\* The deferred a.mutex.Unlock(): this run of calculateMetrics is complete.
CalcUnlock ==
    /\ tasks["w"].pc = "unlock"
    /\ anMutex' = NoLock
    /\ tasks' = [tasks EXCEPT !["w"].pc = "latch",
                              !["w"].completed = @ \cup {metrics}]
    /\ UNCHANGED <<mdVars, anVars, stVars, stObs, mdObs, anObs, thVars, wsVars,
                   stMutex, logMutex, conns, lastInput>>

\* if !a.warmupComplete && a.market.HasMinimumData(a.warmupTicks): the test,
\* made without a.mutex.  The feeding goroutine is the only writer of the
\* flag, and warmupTicks is not written once ticks are fed.
WarmupTest ==
    /\ tasks["w"].pc = "latch"
    /\ tasks' = [tasks EXCEPT
                    !["w"].pc = IF ~warmupComplete /\ HasMinimumData(warmupTicks)
                                THEN "latchlock" ELSE "get"]
    /\ UNCHANGED <<mdVars, anVars, stVars, stObs, mdObs, anObs, thVars, wsVars,
                   lkVars, conns, lastInput>>

\* a.mutex.Lock() of the latch.
WarmupLock ==
    /\ tasks["w"].pc = "latchlock"
    /\ CanLock(anMutex)
    /\ anMutex' = [anMutex EXCEPT !.writer = "w"]
    /\ tasks' = [tasks EXCEPT !["w"].pc = "latchset"]
    /\ UNCHANGED <<mdVars, anVars, stVars, stObs, mdObs, anObs, thVars, wsVars,
                   stMutex, logMutex, conns, lastInput>>

\* a.warmupComplete = true, a.mutex.Unlock() and the log line: ProcessTick
\* has not returned yet, and holds no lock.
WarmupSet ==
    /\ tasks["w"].pc = "latchset"
    /\ warmupComplete' = latchWarmup(warmupComplete, TRUE)
    /\ anMutex' = NoLock
    /\ tasks' = [tasks EXCEPT !["w"].pc = "get"]
    /\ UNCHANGED <<mdVars, metrics, trendStrengthWindow, warmupTicks, stVars,
                   stObs, mdObs, anObs, thVars, wsVars, stMutex, logMutex,
                   conns, lastInput>>

\* GetMetrics: a.mutex.RLock()
GetLock(t) ==
    /\ tasks[t].pc = getPc(t).call
    /\ CanRLock(anMutex)
    /\ anMutex' = [anMutex EXCEPT !.readers = @ \cup {t}]
    /\ tasks' = [tasks EXCEPT ![t].pc = getPc(t).copy,
                              ![t].copy = emptyMetrics,
                              ![t].i = 1]
    /\ UNCHANGED <<mdVars, anVars, stVars, stObs, mdObs, anObs, thVars, wsVars,
                   stMutex, logMutex, conns, lastInput>>

\* <field i>: a.metrics.<field i>
GetCopy(t) ==
    /\ tasks[t].pc = getPc(t).copy
    /\ tasks' = [tasks EXCEPT
                    ![t].copy = setField(@, tasks[t].i, metrics),
                    ![t].i = @ + 1,
                    ![t].pc = IF tasks[t].i = Len(MetricFields)
                              THEN getPc(t).unlock ELSE getPc(t).copy]
    /\ UNCHANGED <<mdVars, anVars, stVars, stObs, mdObs, anObs, thVars, wsVars,
                   lkVars, conns, lastInput>>

\* The deferred a.mutex.RUnlock() and the return of the copy: to the caller
\* of GetMetrics, or through ProcessTick to the caller of ProcessTick.
GetUnlock(t) ==
    /\ tasks[t].pc = getPc(t).unlock
    /\ anMutex' = [anMutex EXCEPT !.readers = @ \ {t}]
    /\ IF t = "w"
       THEN /\ snapshots' = recordSnapshot(snapshots, <<tasks[t].copy>>)
            /\ tasks' = [tasks EXCEPT ![t].pc = "idle"]
       ELSE /\ tasks' = [tasks EXCEPT ![t].pc = "idle",
                                      ![t].got = <<tasks[t].copy>>]
            /\ UNCHANGED snapshots
    /\ UNCHANGED <<mdVars, anVars, stVars, stObs, mdObs, fed, pass, reached,
                   thVars, wsVars, stMutex, logMutex, conns, lastInput>>

InitMetricsTasks ==
    /\ InitStore(AnalyzerCapacity, FALSE)
    /\ InitAnalyzer
    /\ InitStrategy
    /\ signal = <<>> /\ emitted = <<>> /\ lastCall = <<>> /\ lastEval = <<>>
    /\ arrived = <<>> /\ lastTick = <<>>
    /\ fed = 0 /\ pass = 0 /\ snapshots = <<<<>>>> /\ reached = FALSE
    /\ pc = "idle" /\ curTick = <<>>
    /\ anMutex = NoLock /\ stMutex = NoLock /\ logMutex = NoLock
    /\ conns = <<>>
    /\ lastInput = <<>>
    /\ tasks = [t \in {"w", "r"} |-> IF t = "w" THEN idleWriter ELSE idleReader]

NextMetricsTasks ==
    \/ ConfigureWarmup \/ MetricsFeed \/ ProcessStart
    \/ CalcLock \/ CalcCompute \/ CalcWrite \/ CalcUnlock
    \/ WarmupTest \/ WarmupLock \/ WarmupSet
    \/ \E t \in {"w", "r"} : GetLock(t) \/ GetCopy(t) \/ GetUnlock(t)

SpecMetricsTasks == InitMetricsTasks /\ [][NextMetricsTasks]_vars

\* C15: the fields a GetMetrics call has copied so far, and the copy it
\* returns, all come from one snapshot: the defaults of NewMarketMetrics or
\* the fields as a completed run of calculateMetrics left them.  The calls
\* are those of the reading goroutine and those ProcessTick makes itself.
C15_NoPartialSnapshot ==
    /\ \A t \in {"w", "r"} :
          tasks[t].pc \in {getPc(t).copy, getPc(t).unlock} =>
              \E snap \in tasks["w"].completed :
                  \A j \in 1..(tasks[t].i - 1) :
                      tasks[t].copy[MetricFields[j]] = snap[MetricFields[j]]
    /\ tasks["r"].got # <<>> => tasks["r"].got[1] \in tasks["w"].completed
    /\ \A i \in 1..processed :
          Last(snapshots)[i] # <<>> =>
              Last(snapshots)[i][1] \in tasks["w"].completed

\* GetMetrics has returned the snapshot of an earlier run while the next run
\* of calculateMetrics is in the middle of its field assignments.
C15_Witness ==
    /\ tasks["r"].got # <<>>
    /\ tasks["r"].got[1] # NewMarketMetrics
    /\ tasks["w"].pc = "write"
    /\ tasks["w"].i = 4
    /\ tasks["r"].got[1] # metrics
    /\ tasks["r"].got[1] # tasks["w"].computed

---------------------------------------------------------------------------
(* SpecReporter: the pipeline of SpecManager together with the goroutine   *)
(* of Manager.startStatusReporting.  Each call the reporter makes is two   *)
(* steps: it takes the lock of the callee, then reads, releases and goes   *)
(* on to the next call.                                                    *)

\* The calls of one round, in order, and the mutex each one takes.
\*   price   m.market.GetCurrentPrice()       md.mutex.RLock
\*   metrics m.analyzer.GetMetrics()          a.mutex.RLock
\*   active  m.strategy.IsActiveTrade()       s.mutex.RLock
\*   data    m.strategy.GetActiveTradeData()  s.mutex.RLock
\*   report  m.logger.ReportMarketStatus()    l.mutex.Lock, if the status
\*                                            channel is full
idleReporter ==
    [pc |-> "wait", stage |-> "price", currentPrice |-> Zero,
     metrics |-> <<>>, tradeActive |-> FALSE, tradePnL |-> Zero,
     logged |-> FALSE, reported |-> <<>>]

\* CurrentPnL taken from the price of the latest GenerateSignal call.
currentPnL_LatestPrice(trade) ==
    IF trade.Active
    THEN F64Mul(F64Sub(F64Div(lastCall[1].price, trade.EntryPrice), One), hundred)
    ELSE Zero

\* GetActiveTradeData: CurrentPnL of the copy.
currentPnL(trade) ==
    IF trade.Active
    THEN F64Mul(F64Sub(F64Div(trade.HighestPrice, trade.EntryPrice), One), hundred)
    ELSE Zero

\* <-ticker.C with m.running true (set by StartLiveMode before the goroutine
\* is started): a round begins.
ReporterTick ==
    /\ tasks["rep"].pc = "wait"
    /\ tasks' = [tasks EXCEPT !["rep"].pc = "acquire", !["rep"].stage = "price",
                              !["rep"].tradePnL = Zero]
    /\ UNCHANGED <<mdVars, anVars, stVars, stObs, mdObs, anObs, thVars, wsVars,
                   lkVars, conns, lastInput>>

\* The lock taken at the head of the current call.  ReportStatus sends on
\* the status channel and, when the channel is full, logs instead.
ReporterAcquire ==
    /\ tasks["rep"].pc = "acquire"
    /\ \E full \in BOOLEAN :
        /\ IF tasks["rep"].stage = "price"
           THEN /\ CanRLock(mdMutex)
                /\ mdMutex' = RLock(mdMutex, "rep")
                /\ UNCHANGED lkVars
           ELSE IF tasks["rep"].stage = "metrics"
           THEN /\ CanRLock(anMutex)
                /\ anMutex' = RLock(anMutex, "rep")
                /\ UNCHANGED <<mdMutex, stMutex, logMutex>>
           ELSE IF tasks["rep"].stage \in {"active", "data"}
           THEN /\ CanRLock(stMutex)
                /\ stMutex' = RLock(stMutex, "rep")
                /\ UNCHANGED <<mdMutex, anMutex, logMutex>>
           ELSE /\ full => CanLock(logMutex)
                /\ logMutex' = IF full THEN [logMutex EXCEPT !.writer = "rep"]
                               ELSE logMutex
                /\ UNCHANGED <<mdMutex, anMutex, stMutex>>
        /\ tasks' = [tasks EXCEPT !["rep"].pc = "release",
                        !["rep"].logged = (tasks["rep"].stage = "report" /\ full)]
    /\ UNCHANGED <<priceHistory, volumeHistory, bidVolume, askVolume,
                   timeStamps, highPrices, lowPrices, maxSize, roundNum,
                   prevPrice, tickCallback, anVars, stVars, stObs, mdObs, anObs,
                   thVars, wsVars, conns, lastInput>>

\* The body of the current call, its deferred unlock, and the statement of
\* startStatusReporting that follows the call.
ReporterRelease ==
    /\ tasks["rep"].pc = "release"
    /\ IF tasks["rep"].stage = "price"
       THEN /\ mdMutex' = RUnlock(mdMutex, "rep")
            /\ tasks' = [tasks EXCEPT !["rep"].currentPrice = GetCurrentPrice,
                            !["rep"].stage = "metrics", !["rep"].pc = "acquire"]
            /\ UNCHANGED lkVars
       ELSE IF tasks["rep"].stage = "metrics"
       THEN /\ anMutex' = RUnlock(anMutex, "rep")
            /\ tasks' = [tasks EXCEPT !["rep"].metrics = <<metrics>>,
                            !["rep"].stage = "active", !["rep"].pc = "acquire"]
            /\ UNCHANGED <<mdMutex, stMutex, logMutex>>
       ELSE IF tasks["rep"].stage = "active"
       THEN /\ stMutex' = RUnlock(stMutex, "rep")
            /\ tasks' = [tasks EXCEPT !["rep"].tradeActive = IsActiveTrade,
                            !["rep"].stage = IF IsActiveTrade THEN "data"
                                             ELSE "report",
                            !["rep"].pc = "acquire"]
            /\ UNCHANGED <<mdMutex, anMutex, logMutex>>
       ELSE IF tasks["rep"].stage = "data"
       THEN /\ stMutex' = RUnlock(stMutex, "rep")
            /\ tasks' = [tasks EXCEPT !["rep"].tradePnL = currentPnL(activeTrade),
                            !["rep"].stage = "report", !["rep"].pc = "acquire"]
            /\ UNCHANGED <<mdMutex, anMutex, logMutex>>
       ELSE /\ logMutex' = IF tasks["rep"].logged THEN NoLock ELSE logMutex
            /\ tasks' = [tasks EXCEPT
                            !["rep"].reported =
                                <<[price       |-> tasks["rep"].currentPrice,
                                   metrics     |-> tasks["rep"].metrics[1],
                                   tradeActive |-> tasks["rep"].tradeActive,
                                   tradePnL    |-> tasks["rep"].tradePnL]>>,
                            !["rep"].stage = "price", !["rep"].pc = "wait"]
            /\ UNCHANGED <<mdMutex, anMutex, stMutex>>
    /\ UNCHANGED <<priceHistory, volumeHistory, bidVolume, askVolume,
                   timeStamps, highPrices, lowPrices, maxSize, roundNum,
                   prevPrice, tickCallback, anVars, stVars, stObs, mdObs, anObs,
                   thVars, wsVars, conns, lastInput>>

InitReporterSpec ==
    /\ InitStore(AnalyzerCapacity, TRUE)
    /\ InitAnalyzer
    /\ InitStrategy
    /\ signal = <<>> /\ emitted = <<>> /\ lastCall = <<>> /\ lastEval = <<>>
    /\ arrived = <<>> /\ lastTick = <<>>
    /\ fed = 0 /\ pass = 0 /\ snapshots = <<<<>>>> /\ reached = FALSE
    /\ pc = "idle" /\ curTick = <<>>
    /\ anMutex = NoLock /\ stMutex = NoLock /\ logMutex = NoLock
    /\ conns = <<>>
    /\ lastInput = <<>>
    /\ tasks = [t \in {"rep"} |-> idleReporter]

NextReporter ==
    \/ IngestTick \/ TickCallback
    \/ ReporterTick \/ ReporterAcquire \/ ReporterRelease

SpecReporter == InitReporterSpec /\ [][NextReporter]_vars

\* The mutexes the reporter holds, as a reader or as a writer.
heldByReporter ==
    { name \in {"md", "an", "st", "log"} :
        LET mu == IF name = "md" THEN mdMutex
                  ELSE IF name = "an" THEN anMutex
                  ELSE IF name = "st" THEN stMutex ELSE logMutex
        IN  mu.writer = "rep" \/ "rep" \in mu.readers }

\* The reporter is waiting for the store mutex while the ingestion goroutine
\* holds it, and the ingestion goroutine is waiting for a mutex the reporter
\* holds.
lockCycle ==
    /\ tasks["rep"].pc = "acquire" /\ tasks["rep"].stage = "price"
    /\ mdMutex.writer = "ingest"
    /\ pc \in {"callback", "blocked"}
    /\ heldByReporter # {}

\* C16: the reporter never write-locks the store, the analyzer or the
\* strategy, holds at most one mutex at a time, is never part of a lock cycle
\* with the ingestion goroutine, and none of its steps changes the store, the
\* analyzer state or the trade state.
C16_ReporterReadsOnly ==
    /\ [](/\ mdMutex.writer # "rep" /\ anMutex.writer # "rep"
          /\ stMutex.writer # "rep"
          /\ Cardinality(heldByReporter) <= 1
          /\ (tasks["rep"].pc = "acquire" => heldByReporter = {})
          /\ ~lockCycle)
    /\ [][tasks' # tasks =>
            /\ UNCHANGED <<priceHistory, volumeHistory, bidVolume, askVolume,
                           timeStamps, highPrices, lowPrices, maxSize, roundNum,
                           prevPrice, tickCallback>>
            /\ UNCHANGED <<anVars, stVars>>]_vars

\* The reporter holds the analyzer's read lock, having read a price of the
\* store, while the ingestion goroutine is inside AddTick's callback.
C16_Witness ==
    /\ tasks["rep"].pc = "release"
    /\ tasks["rep"].stage = "metrics"
    /\ heldByReporter = {"an"}
    /\ tasks["rep"].reported # <<>>
    /\ pc = "blocked"

---------------------------------------------------------------------------
(* Text input.  A Go string is the sequence of its characters.             *)

Digits == <<"0", "1", "2", "3", "4", "5", "6", "7", "8", "9">>

IsDigit(c) == \E d \in 1..Len(Digits) : Digits[d] = c

DigitValue(c) == (CHOOSE d \in 1..Len(Digits) : Digits[d] = c) - 1

AllDigits(s) == \A k \in 1..Len(s) : IsDigit(s[k])

\* The number a string of decimal digits denotes (0 for the empty string).
RECURSIVE DigitsValue(_)
DigitsValue(s) ==
    IF Len(s) = 0 THEN 0
    ELSE 10 * DigitsValue(SubSeq(s, 1, Len(s) - 1)) + DigitValue(s[Len(s)])

\* The index of the first character of s that is in set, or 0.
IndexAny(s, set) ==
    IF \E k \in 1..Len(s) : s[k] \in set
    THEN CHOOSE k \in 1..Len(s) :
            s[k] \in set /\ \A j \in 1..(k - 1) : s[j] \notin set
    ELSE 0

Before(s, k) == IF k = 0 THEN s ELSE SubSeq(s, 1, k - 1)
After(s, k)  == IF k = 0 THEN <<>> ELSE SubSeq(s, k + 1, Len(s))

HasSign(s) == Len(s) > 0 /\ s[1] \in {"+", "-"}
Unsigned(s) == IF HasSign(s) THEN Tail(s) ELSE s
IsNegative(s) == Len(s) > 0 /\ s[1] = "-"

UpperLetters ==
    <<"A", "B", "C", "D", "E", "F", "G", "H", "I", "J", "K", "L", "M",
      "N", "O", "P", "Q", "R", "S", "T", "U", "V", "W", "X", "Y", "Z">>
LowerLetters ==
    <<"a", "b", "c", "d", "e", "f", "g", "h", "i", "j", "k", "l", "m",
      "n", "o", "p", "q", "r", "s", "t", "u", "v", "w", "x", "y", "z">>

ToLower(c) ==
    IF \E k \in 1..Len(UpperLetters) : UpperLetters[k] = c
    THEN LowerLetters[CHOOSE k \in 1..Len(UpperLetters) : UpperLetters[k] = c]
    ELSE c

LowerCase(s) == [k \in 1..Len(s) |-> ToLower(s[k])]

\* strconv reads a decimal whose digits start more than 310 places left of
\* the decimal point as out of range, and one whose digits start more than
\* 330 places right of it as zero.
maxDecimalPoint == 310
minDecimalPoint == -330

\* A syntax error, and a value out of range (ErrRange, with an infinity).
parseError == [ok |-> FALSE, value |-> Zero]
rangeError(negative) ==
    [ok |-> FALSE, value |-> IF negative THEN NegInf ELSE PosInf]

\* n * 10^k, eight decimal places at a time.
RECURSIVE scaledUp(_, _)
scaledUp(n, k) ==
    IF k <= 8 THEN BigMul(n, BigOf(Pow10(k)))
    ELSE The({scaledUp(p, k - 8) : p \in {BigMul(n, BigOf(100000000))}})

BigPow10(k) == scaledUp(<<1>>, k)

\* The digits without their leading zeros.
significantDigits(s) ==
    IF \E k \in 1..Len(s) : s[k] # "0"
    THEN SubSeq(s, CHOOSE k \in 1..Len(s) :
                       s[k] # "0" /\ \A j \in 1..(k - 1) : s[j] = "0",
                Len(s))
    ELSE <<>>

\* Digits that start with a non-zero one, without their trailing zeros.
withoutTrailingZeros(s) ==
    IF Len(s) = 0 THEN s
    ELSE SubSeq(s, 1, CHOOSE k \in 1..Len(s) :
                          s[k] # "0" /\ \A j \in (k + 1)..Len(s) : s[j] = "0")

\* The number a string of decimal digits of any length denotes, eight
\* digits at a time.
RECURSIVE BigDigitsValue(_)
BigDigitsValue(s) ==
    IF Len(s) <= 8 THEN BigOf(DigitsValue(s))
    ELSE The({BigAdd(scaledUp(high, 8),
                     BigOf(DigitsValue(SubSeq(s, Len(s) - 7, Len(s))))) :
              high \in {BigDigitsValue(SubSeq(s, 1, Len(s) - 8))}})

\* The letters that are hexadecimal digits, and the value of a hexadecimal
\* digit.
hexLetters == <<"a", "b", "c", "d", "e", "f">>

IsHexLetter(c) == \E d \in 1..Len(hexLetters) : hexLetters[d] = ToLower(c)

HexValue(c) ==
    IF IsDigit(c) THEN DigitValue(c)
    ELSE 9 + (CHOOSE d \in 1..Len(hexLetters) : hexLetters[d] = ToLower(c))

\* The number a string of at most six hexadecimal digits denotes, and the
\* number a string of hexadecimal digits of any length denotes, six digits
\* at a time.
RECURSIVE HexDigitsValue(_)
HexDigitsValue(s) ==
    IF Len(s) = 0 THEN 0
    ELSE 16 * HexDigitsValue(SubSeq(s, 1, Len(s) - 1)) + HexValue(s[Len(s)])

RECURSIVE BigHexValue(_)
BigHexValue(s) ==
    IF Len(s) <= 6 THEN BigOf(HexDigitsValue(s))
    ELSE The({BigAdd(BigShl(high, 24),
                     BigOf(HexDigitsValue(SubSeq(s, Len(s) - 5, Len(s))))) :
              high \in {BigHexValue(SubSeq(s, 1, Len(s) - 6))}})

\* The least index of s from from on that is in stops, or Len(s) + 1 when
\* there is none.
scanTo(s, from, stops) ==
    IF \E k \in from..Len(s) : k \in stops
    THEN CHOOSE k \in from..Len(s) :
            k \in stops /\ \A j \in from..(k - 1) : j \notin stops
    ELSE Len(s) + 1

\* The exponent loop of readFloat over the digits of the exponent: a digit
\* is taken in while the exponent read so far is below 10000, so that five
\* significant digits count and later ones do not.
maxExponentRead == 10000

RECURSIVE exponentFold(_, _)
exponentFold(e, digits) ==
    IF Len(digits) = 0 \/ e >= maxExponentRead THEN e
    ELSE exponentFold(10 * e + DigitValue(digits[1]), Tail(digits))

exponentValue(s) == exponentFold(0, significantDigits(s))

\* The float64 nearest to (-1)^s * n / d: the quotient of n * 2^up by d has
\* 57 bits or more, the remainder is the sticky part.
nearestQuotient(s, n, d, up) ==
    The({F64Round(s, res.q, -up, res.r # <<>>) :
         res \in {BigDivMod(BigShl(n, up), d)}})

\* The float64 nearest to (-1)^s * n * 10^scale, for n > 0.
decimalFloat(s, n, scale) ==
    IF scale >= 0 THEN F64Round(s, scaledUp(n, scale), 0, FALSE)
    ELSE The({nearestQuotient(s, n, d, 57 + BigBitLen(d)) :
              d \in {BigPow10(-scale)}})

\* A finite value, or the error ErrRange for a value that rounds to an
\* infinity.
inRange(negative, v) ==
    IF F64IsInf(v) THEN rangeError(negative) ELSE [ok |-> TRUE, value |-> v]

\* The value of a well-formed decimal literal: the significant digits of
\* the mantissa (kept digits standing for kept * 10^zeros) scaled by ten to
\* the power scale, rounded to the nearest float64; zero keeps the sign.
trimmedValue(negative, kept, zeros, scale) ==
    inRange(negative, decimalFloat(IF negative THEN 1 ELSE 0,
                                   BigDigitsValue(kept), scale + zeros))

decimalValue(negative, digits, scale) ==
    IF Len(digits) = 0 \/ Len(digits) + scale < minDecimalPoint
    THEN [ok |-> TRUE, value |-> F64Zero(IF negative THEN 1 ELSE 0)]
    ELSE IF Len(digits) + scale > maxDecimalPoint THEN rangeError(negative)
    ELSE The({trimmedValue(negative, kept, Len(digits) - Len(kept), scale) :
              kept \in {withoutTrailingZeros(digits)}})

\* atofHex: the value of a well-formed hexadecimal literal, its digits
\* times two to the power exp, rounded to the nearest float64 (ties to
\* even); zero keeps the sign.
atofHex(negative, digits, exp) ==
    IF Len(digits) = 0
    THEN [ok |-> TRUE, value |-> F64Zero(IF negative THEN 1 ELSE 0)]
    ELSE inRange(negative, F64Round(IF negative THEN 1 ELSE 0,
                                    BigHexValue(digits), exp, FALSE))

\* underscoreOK: an underscore stands only between two digits, the base
\* prefix (0x, 0b, 0o) counting as a digit before it; letters a to f are
\* digits after the prefix 0x.
underscoreDigit(c, hex) == IsDigit(c) \/ (hex /\ IsHexLetter(c))

separatorsOK(body, first, hex) ==
    \A k \in first..Len(body) :
        body[k] = "_" =>
            /\ IF k = first THEN first = 3
               ELSE underscoreDigit(body[k - 1], hex)
            /\ k < Len(body)
            /\ underscoreDigit(body[k + 1], hex)

underscoreOK(s) ==
    IF /\ Len(Unsigned(s)) >= 2 /\ Unsigned(s)[1] = "0"
       /\ ToLower(Unsigned(s)[2]) \in {"b", "o", "x"}
    THEN separatorsOK(Unsigned(s), 3, ToLower(Unsigned(s)[2]) = "x")
    ELSE separatorsOK(Unsigned(s), 1, FALSE)

\* The mantissa loop of readFloat stops at the first character that is no
\* underscore, digit (or letter a to f in a hexadecimal literal) or ".",
\* and at a second ".".
mantissaChar(c, hex) ==
    c \in {"_", "."} \/ IsDigit(c) \/ (hex /\ IsHexLetter(c))

mantissaEnd(s, from, hex) ==
    Min(scanTo(s, from, {k \in 1..Len(s) : ~mantissaChar(s[k], hex)}),
        scanTo(s, scanTo(s, from, {k \in 1..Len(s) : s[k] = "."}) + 1,
               {k \in 1..Len(s) : s[k] = "."}))

\* The exponent of readFloat at index at, where the mantissa ended: the
\* exponent character (e, or p in a hexadecimal literal), an optional sign,
\* a digit, then digits and underscores.  A hexadecimal literal must have
\* one.  next is the index of the first character not read.
exponentDigitsFrom(s, first) ==
    IF first > Len(s) \/ ~IsDigit(s[first]) THEN [ok |-> FALSE, next |-> first, e |-> 0]
    ELSE The({[ok |-> TRUE, next |-> next,
               e  |-> exponentValue(SelectSeq(SubSeq(s, first, next - 1), IsDigit))] :
              next \in {scanTo(s, first, {k \in 1..Len(s) : ~(IsDigit(s[k]) \/ s[k] = "_")})}})

readExponent(s, at, hex) ==
    IF at <= Len(s) /\ ToLower(s[at]) = (IF hex THEN "p" ELSE "e")
    THEN IF at + 1 <= Len(s) /\ s[at + 1] = "-"
         THEN [exponentDigitsFrom(s, at + 2) EXCEPT !.e = -@]
         ELSE IF at + 1 <= Len(s) /\ s[at + 1] = "+"
         THEN exponentDigitsFrom(s, at + 2)
         ELSE exponentDigitsFrom(s, at + 1)
    ELSE [ok |-> ~hex, next |-> at, e |-> 0]

\* Text that is no literal read as zero, without error.
readFloat_Lenient(s) == [ok |-> TRUE, n |-> Len(s), neg |-> FALSE, hex |-> FALSE, digits |-> <<>>, exp |-> 0]

\* readFloat: the sign, the base (the prefix 0x or 0X with a character
\* after it makes the literal hexadecimal), the mantissa, the exponent and
\* the test of the underscores.  n is the number of characters read, digits
\* are the digits of the mantissa from the first non-zero one on, and the
\* literal denotes digits * 10^exp, or digits * 2^exp when hexadecimal.
mantissaOf(s, hex, text, dot, x) ==
    IF Len(text) - (IF dot = 0 THEN 0 ELSE 1) = 0 \/ ~x.ok
    THEN [ok |-> FALSE, n |-> x.next - 1]
    ELSE IF (\E k \in 1..(x.next - 1) : s[k] = "_")
            /\ ~underscoreOK(SubSeq(s, 1, x.next - 1))
    THEN [ok |-> FALSE, n |-> x.next - 1]
    ELSE [ok     |-> TRUE,
          n      |-> x.next - 1,
          neg    |-> IsNegative(s),
          hex    |-> hex,
          digits |-> significantDigits(Before(text, dot) \o After(text, dot)),
          exp    |-> x.e - (IF hex THEN 4 ELSE 1) * Len(After(text, dot))]

scanFloat(s, from, hex, end) ==
    The({mantissaOf(s, hex, text, IndexAny(text, {"."}), readExponent(s, end, hex)) :
         text \in {SelectSeq(SubSeq(s, from, end - 1), LAMBDA c : c # "_")}})

readFloat(s) ==
    IF Len(s) = 0 THEN [ok |-> FALSE, n |-> 0]
    ELSE The({IF from + 2 <= Len(s) /\ s[from] = "0" /\ ToLower(s[from + 1]) = "x"
              THEN scanFloat(s, from + 2, TRUE, mantissaEnd(s, from + 2, TRUE))
              ELSE scanFloat(s, from, FALSE, mantissaEnd(s, from, FALSE)) :
              from \in {IF HasSign(s) THEN 2 ELSE 1}})

\* atof64 after special: a literal that readFloat reads to its end has the
\* value of its digits; anything else is a syntax error.
floatOf(r, len) ==
    IF ~r.ok \/ r.n # len THEN parseError
    ELSE IF r.hex THEN atofHex(r.neg, r.digits, r.exp)
    ELSE decimalValue(r.neg, r.digits, r.exp)

\* strconv.ParseFloat(s, 64): the names of the infinities and of NaN, and
\* decimal and hexadecimal literals with underscores between digits; the
\* error is the negation of ok.
ParseFloat(s) ==
    LET low == LowerCase(Unsigned(s))
    IN  IF low = <<"i", "n", "f">>
           \/ low = <<"i", "n", "f", "i", "n", "i", "t", "y">>
        THEN [ok |-> TRUE, value |-> IF IsNegative(s) THEN NegInf ELSE PosInf]
        ELSE IF ~HasSign(s) /\ low = <<"n", "a", "n">>
        THEN [ok |-> TRUE, value |-> NaN]
        ELSE floatOf(readFloat(s), Len(s))

---------------------------------------------------------------------------
(* Live messages.  A message is what json.Unmarshal makes of its bytes:    *)
(* an error, or a map from keys to JSON values; a JSON value is a string   *)
(* [str |-> characters], a number [num |-> n] or a boolean [bool |-> b].   *)

\* data[key].(string), data[key].(float64), data[key].(bool): the zero value
\* when the key is missing or holds a value of another type.
stringField(data, key) ==
    IF key \in DOMAIN data /\ "str" \in DOMAIN data[key]
    THEN data[key].str ELSE <<>>

numberField(data, key) ==
    IF key \in DOMAIN data /\ "num" \in DOMAIN data[key]
    THEN data[key].num ELSE 0

boolField(data, key) ==
    IF key \in DOMAIN data /\ "bool" \in DOMAIN data[key]
    THEN data[key].bool ELSE FALSE

\* Milliseconds per day and per hour.
msPerDay  == 86400000
msPerHour == 3600000

\* time.Unix(0, int64(timestampMs) * int64(time.Millisecond)): the instant
\* ms milliseconds after the Unix epoch (before it for a negative ms).
unixMilli(ms) ==
    [day  |-> epochDay + (ms \div msPerDay),
     sec  |-> (ms % msPerDay) \div 1000,
     nsec |-> (ms % 1000) * 1000000]

\* One iteration of the read loop up to md.AddTick: the tick of a message,
\* or the reason the message is dropped.
tickOfMessage(msg) ==
    LET price    == ParseFloat(stringField(msg.data, "p"))
        quantity == ParseFloat(stringField(msg.data, "q"))
    IN  IF ~msg.decodes THEN [ok |-> FALSE, why |-> "JSON parse error"]
        ELSE IF ~price.ok THEN [ok |-> FALSE, why |-> "Price parse error"]
        ELSE IF ~quantity.ok THEN [ok |-> FALSE, why |-> "Quantity parse error"]
        ELSE [ok   |-> TRUE,
              tick |-> [Price     |-> price.value,
                        Volume    |-> quantity.value,
                        IsAsk     |-> ~boolField(msg.data, "m"),
                        Timestamp |-> unixMilli(numberField(msg.data, "T"))]]

---------------------------------------------------------------------------
(* SpecLive: ConnectLive and Disconnect called in any order on a store,    *)
(* with or without the tick callback registered, and the goroutines of     *)
(* startWebSocketConnection that ConnectLive starts.                       *)

MaxTasks == 2
MaxLive  == 2

tradeMessage(p, q, m, T) ==
    [decodes |-> TRUE,
     data    |-> [k \in {"p", "q", "m", "T"} |->
                    IF k = "p" THEN p ELSE IF k = "q" THEN q
                    ELSE IF k = "m" THEN [bool |-> m] ELSE [num |-> T]]]

\* Two trades (the second with a hexadecimal price and an underscore in the
\* quantity), then messages that are not JSON objects, lack the price,
\* carry the price as a number, or carry text that is no number.
LiveMessages ==
    << tradeMessage([str |-> <<"1", "0", "0", ".", "5">>],
                    [str |-> <<"2">>], FALSE, msPerHour),
       tradeMessage([str |-> <<"0", "x", "1", ".", "8", "d", "p", "6">>],
                    [str |-> <<"1", "_", "0">>], TRUE, 2 * msPerHour),
       [decodes |-> FALSE, data |-> <<>>],
       [decodes |-> TRUE,
        data |-> [k \in {"q"} |-> [str |-> <<"2">>]]],
       tradeMessage([num |-> 100], [str |-> <<"2">>], FALSE, msPerHour),
       tradeMessage([str |-> <<"1", "0", "0", ",", "5">>],
                    [str |-> <<"2">>], FALSE, msPerHour),
       tradeMessage([str |-> <<"1", "0", "0">>],
                    [str |-> <<"1", "e", "4", "0", "0">>], FALSE, msPerHour),
       tradeMessage([str |-> <<"1", "0", "0">>],
                    [str |-> <<"1", "_", "_", "0">>], TRUE, msPerHour) >>

\* What the read loop makes of each message.
LiveTicks == [k \in 1..Len(LiveMessages) |-> tickOfMessage(LiveMessages[k])]

\* A goroutine of startWebSocketConnection as ConnectLive starts it: syms is
\* what that call stored in md.symbols, conn the connection the goroutine
\* dials, msg the message it has read and not yet handled.
newTask(syms) == [pc |-> "start", conn |-> 0, syms |-> syms, msg |-> 0]

\* An index out of range in a goroutine ends the process.
crashed == \E t \in 1..Len(tasks) : tasks[t].pc = "panic"

\* The goroutine reads md.symbols without holding md.mutex, while later
\* ConnectLive calls write it under the lock: a data race.  Such a read
\* observes the write made before the goroutine was started or any later
\* one.
visibleSymbols(t) == {tasks[k].syms : k \in t..Len(tasks)}

\* The goroutine is in its read loop and not inside AddTick's callback.
atReadMessage(t) ==
    IF tasks[t].pc = "adding" THEN pc = "idle" ELSE tasks[t].pc = "reading"

\* The trades that goroutines have read and not yet passed to AddTick.
pendingTrades ==
    {t \in 1..Len(tasks) : tasks[t].pc = "received" /\ LiveTicks[tasks[t].msg].ok}

\* md.ConnectLive(symbols)
ConnectLive ==
    \E syms \in {<<>>, <<"btcusdt">>} :
        /\ ~crashed
        /\ Len(tasks) < MaxTasks
        /\ CanLock(mdMutex)
        /\ IF wsActive
           THEN /\ lastInput' = [lastInput EXCEPT
                       !.call = <<[op |-> "ConnectLive", err |-> TRUE]>>,
                       !.flip = ~@]
                /\ UNCHANGED <<symbols, tasks>>
           ELSE /\ symbols' = syms
                /\ tasks' = Append(tasks, newTask(syms))
                /\ lastInput' = [lastInput EXCEPT
                       !.call = <<[op |-> "ConnectLive", err |-> FALSE]>>,
                       !.flip = ~@]
        /\ UNCHANGED <<mdVars, anVars, stVars, stObs, mdObs, anObs, thVars,
                       wsConn, wsActive, lkVars, conns>>

\* if len(md.symbols) == 0 { return }
CheckSymbols ==
    \E t \in 1..Len(tasks) :
        /\ ~crashed
        /\ tasks[t].pc = "start"
        /\ \E seen \in visibleSymbols(t) :
               tasks' = [tasks EXCEPT
                   ![t].pc = IF Len(seen) = 0 THEN "done" ELSE "index"]
        /\ UNCHANGED <<mdVars, anVars, stVars, stObs, mdObs, anObs, thVars,
                       wsVars, lkVars, conns, lastInput>>

\* symbol := md.symbols[0], which panics when the slice is seen empty.
IndexSymbols ==
    \E t \in 1..Len(tasks) :
        /\ ~crashed
        /\ tasks[t].pc = "index"
        /\ \E seen \in visibleSymbols(t) :
               tasks' = [tasks EXCEPT
                   ![t].pc = IF Len(seen) = 0 THEN "panic" ELSE "dial"]
        /\ UNCHANGED <<mdVars, anVars, stVars, stObs, mdObs, anObs, thVars,
                       wsVars, lkVars, conns, lastInput>>

\* websocket.DefaultDialer.Dial returns: it fails, and the goroutine
\* returns, or it yields a new open connection.
Dial ==
    \E t \in 1..Len(tasks), dialed \in BOOLEAN :
        /\ ~crashed
        /\ tasks[t].pc = "dial"
        /\ IF ~dialed
           THEN /\ tasks' = [tasks EXCEPT ![t].pc = "done"]
                /\ UNCHANGED conns
           ELSE /\ conns' = Append(conns, "open")
                /\ tasks' = [tasks EXCEPT ![t].pc = "connected",
                                          ![t].conn = Len(conns) + 1]
        /\ UNCHANGED <<mdVars, anVars, stVars, stObs, mdObs, anObs, thVars,
                       wsVars, lkVars, lastInput>>

\* md.wsConn = conn; md.wsActive = true (under md.mutex)
SetActive ==
    \E t \in 1..Len(tasks) :
        /\ ~crashed
        /\ tasks[t].pc = "connected"
        /\ CanLock(mdMutex)
        /\ wsConn' = <<tasks[t].conn>>
        /\ wsActive' = TRUE
        /\ tasks' = [tasks EXCEPT ![t].pc = "reading"]
        /\ UNCHANGED <<mdVars, anVars, stVars, stObs, mdObs, anObs, thVars,
                       symbols, lkVars, conns, lastInput>>

\* conn.ReadMessage() returns: with an error on a closed connection, and
\* possibly on an open one (k = 0), which ends the loop; otherwise with a
\* message.
ReadMessageOf(choices) ==
    \E t \in 1..Len(tasks), k \in {0} \cup choices :
        /\ ~crashed
        /\ atReadMessage(t)
        /\ IF conns[tasks[t].conn] = "closed" \/ k = 0
           THEN tasks' = [tasks EXCEPT ![t].pc = "cleanup"]
           ELSE /\ LiveTicks[k].ok => fed + Cardinality(pendingTrades) < MaxLive
                /\ tasks' = [tasks EXCEPT ![t].pc = "received", ![t].msg = k]
        /\ UNCHANGED <<mdVars, anVars, stVars, stObs, mdObs, anObs, thVars,
                       wsVars, lkVars, conns, lastInput>>

\* Any message of LiveMessages is read; where two goroutines run, a trade
\* and a message that does not decode.
LiveSample == {1, 3}

ReadMessage == ReadMessageOf(1..Len(LiveMessages))
ReadSample  == ReadMessageOf(LiveSample)

\* The rest of the iteration, from json.Unmarshal to md.AddTick: the
\* message is dropped, or becomes a tick passed to AddTick, which takes
\* md.mutex.
HandleMessage ==
    \E t \in 1..Len(tasks) :
        /\ ~crashed
        /\ tasks[t].pc = "received"
        /\ IF ~LiveTicks[tasks[t].msg].ok
           THEN /\ lastInput' = [lastInput EXCEPT
                       !.read = <<[message |-> tasks[t].msg, added |-> FALSE,
                                   afterDrop |-> lastInput.dropped]>>,
                       !.dropped = TRUE, !.flip = ~@]
                /\ tasks' = [tasks EXCEPT ![t].pc = "reading", ![t].msg = 0]
                /\ UNCHANGED <<mdVars, mdObs, fed, thVars>>
           ELSE /\ AddTickCall("ingest", LiveTicks[tasks[t].msg].tick)
                /\ lastInput' = [lastInput EXCEPT
                       !.read = <<[message |-> tasks[t].msg, added |-> TRUE,
                                   afterDrop |-> lastInput.dropped]>>,
                       !.dropped = FALSE, !.flip = ~@]
                /\ tasks' = [tasks EXCEPT
                       ![t].pc = IF tickCallback THEN "adding" ELSE "reading",
                       ![t].msg = 0]
        /\ UNCHANGED <<anVars, stVars, stObs, pass, snapshots, reached, wsVars,
                       lkVars, conns>>

\* md.wsConn = nil; md.wsActive = false (under md.mutex), and the return.
Cleanup ==
    \E t \in 1..Len(tasks) :
        /\ ~crashed
        /\ tasks[t].pc = "cleanup"
        /\ CanLock(mdMutex)
        /\ wsConn' = <<>>
        /\ wsActive' = FALSE
        /\ tasks' = [tasks EXCEPT ![t].pc = "done"]
        /\ UNCHANGED <<mdVars, anVars, stVars, stObs, mdObs, anObs, thVars,
                       symbols, lkVars, conns, lastInput>>

\* md.Disconnect()
Disconnect ==
    /\ ~crashed
    /\ CanLock(mdMutex)
    /\ conns' = IF wsConn # <<>> THEN [conns EXCEPT ![wsConn[1]] = "closed"]
                ELSE conns
    /\ wsConn' = <<>>
    /\ wsActive' = FALSE
    /\ lastInput' = [lastInput EXCEPT
           !.call = <<[op |-> "Disconnect", err |-> FALSE]>>,
                       !.flip = ~@]
    /\ UNCHANGED <<mdVars, anVars, stVars, stObs, mdObs, anObs, thVars,
                   symbols, lkVars, tasks>>

\* The callback of a tick that a goroutine of the read loop has added.
LiveCallback == ~crashed /\ TickCallback

InitLive ==
    /\ \E callback \in BOOLEAN : InitStore(StoreCapacity, callback)
    /\ InitAnalyzer
    /\ InitStrategy
    /\ signal = <<>> /\ emitted = <<>> /\ lastCall = <<>> /\ lastEval = <<>>
    /\ arrived = <<>> /\ lastTick = <<>>
    /\ fed = 0 /\ pass = 0 /\ snapshots = <<<<>>>> /\ reached = FALSE
    /\ pc = "idle" /\ curTick = <<>>
    /\ anMutex = NoLock /\ stMutex = NoLock /\ logMutex = NoLock
    /\ conns = <<>>
    /\ tasks = <<>>
    /\ lastInput = [call |-> <<>>, read |-> <<>>, dropped |-> FALSE,
                    flip |-> FALSE]

NextLive ==
    \/ ConnectLive \/ CheckSymbols \/ IndexSymbols \/ Dial \/ SetActive
    \/ ReadSample \/ HandleMessage \/ Cleanup \/ Disconnect \/ LiveCallback

SpecLive == InitLive /\ [][NextLive]_vars

\* A step of HandleMessage as the goroutine takes it: possible when the
\* message is dropped or AddTick can take md.mutex, and leaving the
\* goroutine back at the read (or inside AddTick's callback).  Within
\* NextLive these are exactly the steps of HandleMessage.
HandleMessageStep ==
    \E t \in 1..Len(tasks) :
        /\ ~crashed
        /\ tasks[t].pc = "received"
        /\ LiveTicks[tasks[t].msg].ok => (pc = "idle" /\ CanLock(mdMutex))
        /\ \E next \in {"reading", "adding"} :
               tasks' = [tasks EXCEPT ![t].pc = next, ![t].msg = 0]

\* The goroutines, once started, are scheduled: each keeps taking its steps.
SpecLiveFair ==
    /\ SpecLive
    /\ WF_vars(CheckSymbols) /\ WF_vars(IndexSymbols) /\ WF_vars(Dial)
    /\ WF_vars(SetActive) /\ WF_vars(ReadSample)
    /\ WF_tasks(HandleMessageStep) /\ WF_vars(Cleanup)

\* The goroutines in the read loop, and those started and not yet returned
\* (none once the process has ended).
producers ==
    {t \in 1..Len(tasks) : tasks[t].pc \in {"reading", "received", "adding"}}
startedTasks ==
    IF crashed THEN {} ELSE {t \in 1..Len(tasks) : tasks[t].pc # "done"}

\* The latest call of ConnectLive or Disconnect ("" before the first).
lastOp == IF lastInput.call = <<>> THEN "" ELSE lastInput.call[1].op

\* C17: at most one goroutine is in the read loop at any time, and a
\* ConnectLive call made while a started goroutine has not returned gets the
\* "already connected" error and starts nothing.
C17_SingleProducer ==
    /\ [](Cardinality(producers) <= 1)
    /\ [][ ( /\ lastInput'.flip # lastInput.flip
             /\ lastInput'.call # <<>>
             /\ lastInput'.read = lastInput.read
             /\ lastOp' = "ConnectLive"
             /\ startedTasks # {} )
           => (lastInput'.call[1].err /\ tasks' = tasks) ]_vars

\* C18: on a store without callback, when Disconnect is the latest call and
\* goroutines have been started, then (unless ConnectLive is called again)
\* every goroutine eventually returns.
C18_DisconnectEnds ==
    (~tickCallback /\ tasks # <<>> /\ lastOp = "Disconnect")
    ~> (lastOp # "Disconnect" \/ startedTasks = {})

\* The goroutines reading from a connection that is open.
liveReaders ==
    {t \in producers : conns[tasks[t].conn] = "open"}

\* C37: a goroutine that ends its read loop clears wsConn and wsActive only
\* when wsConn is its own connection; and whenever a goroutine is reading
\* from an open connection, wsActive is true and wsConn is that connection
\* (so that Disconnect closes it and ConnectLive is rejected).
C37_OwnConnectionOnly ==
    /\ [](\A t \in liveReaders : wsActive /\ wsConn = <<tasks[t].conn>>)
    /\ [][ \A t \in 1..Len(tasks) :
             ( /\ tasks[t].pc = "cleanup"
               /\ tasks'[t].pc = "done"
               /\ wsConn # <<tasks[t].conn>> )
             => (wsConn' = wsConn /\ wsActive' = wsActive) ]_vars

---------------------------------------------------------------------------
(* SpecMessages: the one goroutine started by a single ConnectLive call on *)
(* a new store (with or without the tick callback registered), from its    *)
(* start to its return, reading any sequence of messages.                  *)

InitMessages ==
    /\ \E callback \in BOOLEAN : InitStore(StoreCapacity, callback)
    /\ InitAnalyzer
    /\ InitStrategy
    /\ signal = <<>> /\ emitted = <<>> /\ lastCall = <<>> /\ lastEval = <<>>
    /\ arrived = <<>> /\ lastTick = <<>>
    /\ fed = 0 /\ pass = 0 /\ snapshots = <<<<>>>> /\ reached = FALSE
    /\ pc = "idle" /\ curTick = <<>>
    /\ anMutex = NoLock /\ stMutex = NoLock /\ logMutex = NoLock
    /\ conns = <<>>
    /\ tasks = <<>>
    /\ lastInput = [call |-> <<>>, read |-> <<>>, dropped |-> FALSE,
                    flip |-> FALSE]

\* The first ConnectLive call.
ConnectOnce == tasks = <<>> /\ ConnectLive

NextMessages ==
    \/ ConnectOnce \/ CheckSymbols \/ IndexSymbols \/ Dial \/ SetActive
    \/ ReadMessage \/ HandleMessage \/ Cleanup \/ LiveCallback

SpecMessages == InitMessages /\ [][NextMessages]_vars

\* The messages of LiveMessages that are trades, with the tick each one
\* describes, read off the message text.
expectedTick(k) ==
    IF k = 1
    THEN [Price |-> Q(201, 2), Volume |-> R(2), IsAsk |-> TRUE,
          Timestamp |-> unixMilli(msPerHour)]
    ELSE [Price |-> Q(397, 4), Volume |-> R(10), IsAsk |-> FALSE,
          Timestamp |-> unixMilli(2 * msPerHour)]

wellFormed(k) == k \in {1, 2}

\* C19: a read of a message that is no JSON object or whose price or
\* quantity is no number changes nothing in the store, does not invoke the
\* callback and leaves the goroutine in its read loop; a read of a trade
\* message, after a dropped one or not, adds the tick the message describes
\* and invokes the callback if one is registered.
C19_MalformedDropped ==
    [][ ( /\ lastInput'.flip # lastInput.flip
          /\ lastInput'.call = lastInput.call )
        => LET r == lastInput'.read[1]
           IN  IF wellFormed(r.message)
               THEN /\ r.added
                    /\ lastTick' = <<expectedTick(r.message)>>
                    /\ Len(arrived') = Len(arrived) + 1
                    /\ Last(priceHistory') = expectedTick(r.message).Price
                    /\ Last(volumeHistory') = expectedTick(r.message).Volume
                    /\ Last(timeStamps') = expectedTick(r.message).Timestamp
                    /\ pc' = IF tickCallback THEN "callback" ELSE "idle"
               ELSE /\ ~r.added
                    /\ UNCHANGED <<mdVars, mdObs, fed, thVars>>
                    /\ \E t \in 1..Len(tasks) :
                           /\ tasks[t].pc = "received"
                           /\ tasks' = [tasks EXCEPT ![t].pc = "reading",
                                                     ![t].msg = 0] ]_vars

\* A trade message has been added right after a dropped message, with an
\* earlier tick already in the store.
C19_Witness ==
    /\ lastInput.read # <<>>
    /\ lastInput.read[1].added
    /\ lastInput.read[1].afterDrop
    /\ Len(priceHistory) = 2
    /\ tasks[1].pc = "reading"

---------------------------------------------------------------------------
(* Historical files.  A file is whether it can be opened and its records   *)
(* as encoding/csv splits them: each a sequence of fields, each field the  *)
(* sequence of its characters.                                             *)

\* strconv.ParseBool
ParseBool(s) ==
    IF s \in {<<"1">>, <<"t">>, <<"T">>, <<"t", "r", "u", "e">>,
              <<"T", "R", "U", "E">>, <<"T", "r", "u", "e">>}
    THEN [ok |-> TRUE, value |-> TRUE]
    ELSE IF s \in {<<"0">>, <<"f">>, <<"F">>, <<"f", "a", "l", "s", "e">>,
                   <<"F", "A", "L", "S", "E">>, <<"F", "a", "l", "s", "e">>}
    THEN [ok |-> TRUE, value |-> FALSE]
    ELSE [ok |-> FALSE, value |-> FALSE]

IsLeap(year) == year % 4 = 0 /\ (year % 100 # 0 \/ year % 400 = 0)

DaysIn(month, year) ==
    IF month = 2 THEN (IF IsLeap(year) THEN 29 ELSE 28)
    ELSE IF month \in {4, 6, 9, 11} THEN 30 ELSE 31

\* Days from January 1 of year 1 to the first day of the year, and from the
\* first day of the year to the first day of the month.
DaysBeforeYear(year) ==
    365 * (year - 1) + ((year - 1) \div 4) - ((year - 1) \div 100)
        + ((year - 1) \div 400)

RECURSIVE DaysBeforeMonth(_, _)
DaysBeforeMonth(month, year) ==
    IF month = 1 THEN 0
    ELSE DaysBeforeMonth(month - 1, year) + DaysIn(month - 1, year)

\* time.isDigit, and a literal character of the layout at index i.
isDigitAt(s, i) == i >= 1 /\ i <= Len(s) /\ IsDigit(s[i])

literalAt(s, i, c) == i >= 1 /\ i <= Len(s) /\ s[i] = c

\* time.getnum at index i: a number of two digits, or of one digit unless
\* fixed; next is the index after it.
getnum(s, i, fixed) ==
    IF ~isDigitAt(s, i) THEN [ok |-> FALSE, value |-> 0, next |-> i]
    ELSE IF ~isDigitAt(s, i + 1)
    THEN [ok |-> ~fixed, value |-> DigitValue(s[i]), next |-> i + 1]
    ELSE [ok    |-> TRUE,
          value |-> 10 * DigitValue(s[i]) + DigitValue(s[i + 1]),
          next  |-> i + 2]

\* A fractional second in the text after the seconds, which the layout does
\* not have: "." or "," and all the digits that follow; the first nine of
\* them are the nanoseconds.
fractionAt(s, i) ==
    IF i + 1 <= Len(s) /\ s[i] \in {".", ","} /\ IsDigit(s[i + 1])
    THEN The({[nsec |-> DigitsValue(SubSeq(s, i + 1, Min(next - 1, i + 9)))
                            * Pow10(9 - (Min(next - 1, i + 9) - i)),
               next |-> next] :
              next \in {scanTo(s, i + 1, {k \in 1..Len(s) : ~IsDigit(s[k])})}})
    ELSE [nsec |-> 0, next |-> i]

\* The zone of the layout element "Z07:00" at index i: "Z", or a sign, two
\* digits, ":" and two digits; offset is in seconds east of UTC.
zoneOffset(sign, hr, mm) ==
    [ok     |-> sign \in {"+", "-"} /\ hr.ok /\ mm.ok
                    /\ hr.value <= 24 /\ mm.value <= 60,
     offset |-> (IF sign = "-" THEN -1 ELSE 1) * (hr.value * 60 + mm.value) * 60]

zoneAt(s, i) ==
    IF literalAt(s, i, "Z") THEN [ok |-> TRUE, offset |-> 0, next |-> i + 1]
    ELSE IF Len(s) - i + 1 < 6 \/ s[i + 3] # ":"
    THEN [ok |-> FALSE, offset |-> 0, next |-> i]
    ELSE [next |-> i + 6] @@ zoneOffset(s[i], getnum(SubSeq(s, i + 1, i + 2), 1, TRUE),
                                        getnum(SubSeq(s, i + 4, i + 5), 1, TRUE))

\* The instant of a date and a time of day read with an offset from UTC.
instantOf(date, seconds, nsec) ==
    [day  |-> date + (seconds \div secondsPerDay),
     sec  |-> seconds % secondsPerDay,
     nsec |-> nsec]

\* The end of the parse: the ranges of the fields, the day of the month and
\* no text left over.
parsedTime(s, year, month, day, hour, min, sec, frac, zone) ==
    IF /\ month.ok /\ literalAt(s, month.next, "-")
       /\ day.ok /\ literalAt(s, day.next, "T")
       /\ hour.ok /\ literalAt(s, hour.next, ":")
       /\ min.ok /\ literalAt(s, min.next, ":")
       /\ sec.ok /\ zone.ok /\ zone.next = Len(s) + 1
       /\ month.value \in 1..12
       /\ day.value >= 1 /\ day.value <= DaysIn(month.value, year)
       /\ hour.value < 24 /\ min.value < 60 /\ sec.value < 60
    THEN [ok    |-> TRUE,
          value |-> instantOf(DaysBeforeYear(year)
                                  + DaysBeforeMonth(month.value, year)
                                  + day.value - 1,
                              secondsPerHour * hour.value + 60 * min.value
                                  + sec.value - zone.offset,
                              frac.nsec)]
    ELSE [ok |-> FALSE, value |-> ZeroTime]

\* The elements of the layout from the hour on, the hour being of one or
\* two digits.
parseClock(s, year, month, day, hour) ==
    The({The({parsedTime(s, year, month, day, hour, min, sec, frac,
                         zoneAt(s, frac.next)) :
              frac \in {fractionAt(s, sec.next)}}) :
         min \in {getnum(s, hour.next + 1, TRUE)},
         sec \in {getnum(s, getnum(s, hour.next + 1, TRUE).next + 1, TRUE)}})

\* time.Parse(time.RFC3339, s), layout "2006-01-02T15:04:05Z07:00": a year
\* of four digits, month, day, minute and second of two digits, an hour of
\* one or two digits, an optional fractional second, and "Z" or a numeric
\* zone offset.  The value is the instant (the zone is not kept).
ParseRFC3339(s) ==
    IF Len(s) < 4 \/ ~AllDigits(SubSeq(s, 1, 4)) \/ ~literalAt(s, 5, "-")
    THEN [ok |-> FALSE, value |-> ZeroTime]
    ELSE The({parseClock(s, DigitsValue(SubSeq(s, 1, 4)), month, day,
                         getnum(s, day.next + 1, FALSE)) :
              month \in {getnum(s, 6, TRUE)},
              day   \in {getnum(s, getnum(s, 6, TRUE).next + 1, TRUE)}})

\* The loop over the header: the index of the last column whose lower-cased
\* name is the given one, counted from 1; 0 stands for the -1 of the code.
columnIndex(header, name) ==
    IF \E c \in 1..Len(header) : LowerCase(header[c]) = name
    THEN CHOOSE c \in 1..Len(header) :
            /\ LowerCase(header[c]) = name
            /\ \A later \in (c + 1)..Len(header) : LowerCase(header[later]) # name
    ELSE 0

columnsOf(header) ==
    [timestamp |-> columnIndex(header, <<"t","i","m","e","s","t","a","m","p">>),
     price     |-> columnIndex(header, <<"p","r","i","c","e">>),
     volume    |-> columnIndex(header, <<"v","o","l","u","m","e">>),
     isAsk     |-> columnIndex(header, <<"i","s","_","a","s","k">>)]

\* reader.Read() of a record after the first: an error when its number of
\* fields differs from the header's (csv.ErrFieldCount).
readerRejects(header, row) == Len(row) # Len(header)

\* The body of the row loop after reader.Read(): the tick of a row, or the
\* warning with which the row is skipped.
tickOfRow(cols, row) ==
    LET timestamp == ParseRFC3339(row[cols.timestamp])
        price     == ParseFloat(row[cols.price])
        volume    == ParseFloat(row[cols.volume])
        isAsk     == ParseBool(row[cols.isAsk])
    IN  IF ~timestamp.ok THEN [ok |-> FALSE, why |-> "Invalid timestamp format"]
        ELSE IF ~price.ok THEN [ok |-> FALSE, why |-> "Invalid price"]
        ELSE IF ~volume.ok THEN [ok |-> FALSE, why |-> "Invalid volume"]
        ELSE IF ~isAsk.ok THEN [ok |-> FALSE, why |-> "Invalid is_ask value"]
        ELSE [ok   |-> TRUE,
              tick |-> [Price |-> price.value, Volume |-> volume.value,
                        IsAsk |-> isAsk.value, Timestamp |-> timestamp.value]]

---------------------------------------------------------------------------
(* SpecHistory: LoadHistoricalData called on a new store (with or without  *)
(* the tick callback registered), one file after another.  The call is     *)
(* its steps: the part before the row loop, each iteration of the loop,    *)
(* and the return.                                                         *)

MaxLoads == 2

\* "timestamp,price,volume,is_ask", "2024-01-01T0h:00:00Z" and three prices.
csvHeader ==
    << <<"t", "i", "m", "e", "s", "t", "a", "m", "p">>, <<"p", "r", "i", "c", "e">>,
       <<"v", "o", "l", "u", "m", "e">>, <<"i", "s", "_", "a", "s", "k">> >>

stamp(h) ==
    <<"2", "0", "2", "4", "-", "0", "1", "-", "0", "1", "T", "0", Digits[h + 1],
      ":", "0", "0", ":", "0", "0", "Z">>

\* "2024-01-01T05:00:00.5+02:00" (half a second past three o'clock UTC) and
\* "2024-01-01T6:00:00Z".
stampEast ==
    <<"2", "0", "2", "4", "-", "0", "1", "-", "0", "1", "T", "0", "5", ":",
      "0", "0", ":", "0", "0", ".", "5", "+", "0", "2", ":", "0", "0">>

stampShort ==
    <<"2", "0", "2", "4", "-", "0", "1", "-", "0", "1", "T", "6", ":", "0", "0",
      ":", "0", "0", "Z">>

price1 == <<"1", "0", "0", ".", "5">>
price2 == <<"1", "0", "0", ".", "2", "5">>
price3 == <<"9", "9", ".", "7", "5">>

\* The files: a data file with rows that do not parse (and rows that do,
\* with a zone offset, a fractional second, an hour of one digit, an
\* underscore in the price and a hexadecimal price), one with a record of
\* three fields, one without the price column, one that cannot be opened,
\* one with the columns in another order and case, an empty one, one whose
\* first read fails (a directory) and one whose third read fails.  kinds
\* says of each record after the header whether it is a well-formed row;
\* fails is the number of the read of the file that returns an input error
\* (0: none does).
HistoricalFiles ==
    << [opens   |-> TRUE,
        records |-> << csvHeader,
                       << stamp(1), price1, <<"2">>, <<"t", "r", "u", "e">> >>,
                       << <<"2", "0", "2", "4", "-", "0", "1", "-", "0", "1",
                            " ", "0", "2", ":", "0", "0">>,
                          price1, <<"2">>, <<"t", "r", "u", "e">> >>,
                       << stampEast, <<"1", "_", "0", "0", ".", "2", "5">>,
                          <<"1">>, <<"f", "a", "l", "s", "e">> >>,
                       << stamp(4), <<"a", "b", "c">>, <<"1">>,
                          <<"f", "a", "l", "s", "e">> >>,
                       << stamp(5), <<"1", "0", "1">>, <<"3">>,
                          <<"y", "e", "s">> >>,
                       << stampShort, <<"0", "x", "6", "5", "p", "0">>, <<"3">>,
                          <<"1">> >> >>,
        kinds   |-> <<"ok", "bad", "ok", "bad", "bad", "ok">>, fails |-> 0],
       [opens   |-> TRUE,
        records |-> << csvHeader,
                       << stamp(1), price1, <<"2">>, <<"t", "r", "u", "e">> >>,
                       << stamp(2), price1, <<"2">> >>,
                       << stamp(3), price2, <<"1">>,
                          <<"f", "a", "l", "s", "e">> >>,
                       << stamp(4), <<"1", "0", "1">>, <<"3">>, <<"1">> >> >>,
        kinds   |-> <<"ok", "bad", "ok", "ok">>, fails |-> 0],
       [opens   |-> TRUE,
        records |-> << << <<"t", "i", "m", "e", "s", "t", "a", "m", "p">>,
                          <<"v", "o", "l", "u", "m", "e">>,
                          <<"i", "s", "_", "a", "s", "k">> >>,
                       << stamp(1), <<"2">>, <<"t", "r", "u", "e">> >> >>,
        kinds   |-> <<"ok">>, fails |-> 0],
       [opens   |-> FALSE, records |-> <<>>, kinds |-> <<>>, fails |-> 0],
       [opens   |-> TRUE,
        records |-> << << <<"I", "s", "_", "A", "s", "k">>,
                          <<"V", "O", "L", "U", "M", "E">>,
                          <<"P", "r", "i", "c", "e">>,
                          <<"T", "i", "m", "e", "s", "t", "a", "m", "p">> >>,
                       << <<"0">>, <<"1", ".", "5">>, price3, stamp(1) >>,
                       << <<"f">>, <<>>, price3, stamp(2) >>,
                       << <<"T">>, <<"2">>, <<"1", "e", "2">>, stamp(3) >> >>,
        kinds   |-> <<"ok", "bad", "ok">>, fails |-> 0],
       [opens   |-> TRUE, records |-> <<>>, kinds |-> <<>>, fails |-> 0],
       [opens   |-> TRUE, records |-> <<>>, kinds |-> <<>>, fails |-> 1],
       [opens   |-> TRUE,
        records |-> << csvHeader,
                       << stamp(1), price1, <<"2">>, <<"t", "r", "u", "e">> >> >>,
        kinds   |-> <<"ok">>, fails |-> 3] >>

\* reader.Read() of record k of a file: the error it returns ("" for none).
readError(f, k) ==
    LET file == HistoricalFiles[f]
    IN  IF file.fails = k THEN "read error"
        ELSE IF k > Len(file.records) THEN "EOF"
        ELSE IF k > 1 /\ readerRejects(file.records[1], file.records[k])
        THEN "wrong number of fields"
        ELSE ""

idleLoader ==
    [pc |-> "idle", file |-> 0, cols |-> <<>>, next |-> 0, lineCount |-> 0,
     err |-> ""]

\* Reset called only once the file is open: a call that fails to open its
\* file leaves the store as it was.
resetBeforeOpen_AfterOpen(f) ==
    IF HistoricalFiles[f].opens
    THEN ResetBody
    ELSE /\ pc = "idle"
         /\ CanLock(mdMutex)
         /\ pass' = pass + 1
         /\ UNCHANGED <<mdVars, mdObs, fed>>

\* md.Reset(), the first statement of LoadHistoricalData after its log line.
resetBeforeOpen(f) == ResetBody

\* LoadHistoricalData up to the row loop: Reset, os.Open, the header and the
\* column indices.
LoadStart ==
    \E f \in 1..Len(HistoricalFiles) :
        /\ tasks.pc = "idle"
        /\ pass < MaxLoads
        /\ resetBeforeOpen(f)
        /\ IF ~HistoricalFiles[f].opens
           THEN /\ lastInput' = <<[file |-> f, err |-> "failed to open file",
                                   lineCount |-> 0, readErr |-> ""]>>
                /\ UNCHANGED tasks
           ELSE IF readError(f, 1) # ""
           THEN /\ lastInput' = <<[file |-> f, err |-> "failed to read header",
                                   lineCount |-> 0,
                                   readErr |-> readError(f, 1)]>>
                /\ UNCHANGED tasks
           ELSE IF \E name \in {"timestamp", "price", "volume", "isAsk"} :
                      columnsOf(HistoricalFiles[f].records[1])[name] = 0
           THEN /\ lastInput' = <<[file |-> f,
                                   err |-> "missing required columns",
                                   lineCount |-> 0, readErr |-> ""]>>
                /\ UNCHANGED tasks
           ELSE /\ tasks' = [pc |-> "rows", file |-> f,
                             cols |-> columnsOf(HistoricalFiles[f].records[1]),
                             next |-> 2, lineCount |-> 0, err |-> ""]
                /\ UNCHANGED lastInput
        /\ UNCHANGED <<anVars, stVars, stObs, snapshots, reached, thVars,
                       wsVars, lkVars, conns>>

\* One iteration of the row loop: the end of the file or a record the
\* reader rejects ends the loop, a row that does not parse is skipped, any
\* other row is added.
LoadRow ==
    /\ tasks.pc = "rows"
    /\ pc = "idle"
    /\ LET records == HistoricalFiles[tasks.file].records
       IN  IF readError(tasks.file, tasks.next) # ""
           THEN /\ tasks' = [tasks EXCEPT !.pc = "return",
                                          !.err = readError(tasks.file, tasks.next)]
                /\ UNCHANGED <<mdVars, mdObs, fed, thVars>>
           ELSE IF ~tickOfRow(tasks.cols, records[tasks.next]).ok
           THEN /\ tasks' = [tasks EXCEPT !.next = @ + 1]
                /\ UNCHANGED <<mdVars, mdObs, fed, thVars>>
           ELSE /\ AddTickCall("loader",
                               tickOfRow(tasks.cols, records[tasks.next]).tick)
                /\ tasks' = [tasks EXCEPT !.next = @ + 1, !.lineCount = @ + 1]
    /\ UNCHANGED <<anVars, stVars, stObs, pass, snapshots, reached, wsVars,
                   lkVars, conns, lastInput>>

\* "Loaded %d historical data points" and return nil.
LoadReturn ==
    /\ tasks.pc = "return"
    /\ lastInput' = <<[file |-> tasks.file, err |-> "",
                       lineCount |-> tasks.lineCount, readErr |-> tasks.err]>>
    /\ tasks' = idleLoader
    /\ UNCHANGED <<mdVars, anVars, stVars, stObs, mdObs, anObs, thVars, wsVars,
                   lkVars, conns>>

InitHistory ==
    /\ \E callback \in BOOLEAN : InitStore(StoreCapacity, callback)
    /\ InitAnalyzer
    /\ InitStrategy
    /\ signal = <<>> /\ emitted = <<>> /\ lastCall = <<>> /\ lastEval = <<>>
    /\ arrived = <<>> /\ lastTick = <<>>
    /\ fed = 0 /\ pass = 0 /\ snapshots = <<<<>>>> /\ reached = FALSE
    /\ pc = "idle" /\ curTick = <<>>
    /\ anMutex = NoLock /\ stMutex = NoLock /\ logMutex = NoLock
    /\ conns = <<>>
    /\ tasks = idleLoader
    /\ lastInput = <<>>

NextHistory == LoadStart \/ LoadRow \/ LoadReturn \/ TickCallback

SpecHistory == InitHistory /\ [][NextHistory]_vars

\* The number of well-formed rows of a file.
wellFormedRows(f) ==
    Cardinality({k \in 1..Len(HistoricalFiles[f].kinds) :
                    HistoricalFiles[f].kinds[k] = "ok"})

\* C20: when the row loop of LoadHistoricalData has ended, every well-formed
\* row of the file has been added to the store, whatever malformed rows
\* (rows that do not parse, records the reader rejects) came before it.
C20_MalformedRowsSkipped ==
    tasks.pc = "return" =>
        /\ tasks.lineCount = wellFormedRows(tasks.file)
        /\ Len(arrived) = wellFormedRows(tasks.file)

\* C21: a call of LoadHistoricalData whose file could not be opened, or
\* one of whose reads of the file (the header or a data row) returned an
\* error other than the end of the file, returns a non-nil error.
C21_ReadFailureFatal ==
    \A call \in {lastInput[k] : k \in 1..Len(lastInput)} :
        \/ ~HistoricalFiles[call.file].opens
        \/ call.readErr \notin {"", "EOF"}
        => call.err # ""

\* The ticks the row loop adds for a file, read from record k on.
RECURSIVE ticksFrom(_, _, _)
ticksFrom(f, cols, k) ==
    IF readError(f, k) # "" THEN <<>>
    ELSE IF ~tickOfRow(cols, HistoricalFiles[f].records[k]).ok
    THEN ticksFrom(f, cols, k + 1)
    ELSE <<tickOfRow(cols, HistoricalFiles[f].records[k]).tick>>
             \o ticksFrom(f, cols, k + 1)

\* The ticks a call of LoadHistoricalData adds for a file: none when the
\* file does not open, its header cannot be read or a column is missing.
ticksOfFile(f) ==
    IF ~HistoricalFiles[f].opens \/ readError(f, 1) # "" THEN <<>>
    ELSE IF \E name \in {"timestamp", "price", "volume", "isAsk"} :
               columnsOf(HistoricalFiles[f].records[1])[name] = 0
    THEN <<>>
    ELSE ticksFrom(f, columnsOf(HistoricalFiles[f].records[1]), 2)

\* The newest elements of s the store retains.
retained(s) == IF Len(s) > maxSize THEN LastN(s, maxSize) ELSE s

\* The prices of the file's ticks as AddTick stores them.
storedPrices(ticks) ==
    [i \in 1..Len(ticks) |-> round(ticks[i].Price, inferRoundNum(ticks[1].Price))]

elementsOf(s) == {s[i] : i \in 1..Len(s)}

\* C36: when a call of LoadHistoricalData has returned, with nil or with an
\* error, the store holds the ticks of that call's file and nothing else:
\* prices, volumes and timestamps are those of the file's rows in order, and
\* every running high, running low, bid and ask volume is a value of the
\* file, whatever the store held before the call.
C36_OnlyThisFile ==
    (tasks.pc = "idle" /\ lastInput # <<>>) =>
        LET ticks == ticksOfFile(lastInput[1].file)
        IN  /\ priceHistory = retained(storedPrices(ticks))
            /\ volumeHistory = retained([i \in 1..Len(ticks) |-> ticks[i].Volume])
            /\ timeStamps = retained([i \in 1..Len(ticks) |-> ticks[i].Timestamp])
            /\ Len(highPrices) = Len(priceHistory)
            /\ Len(lowPrices) = Len(priceHistory)
            /\ elementsOf(highPrices) \cup elementsOf(lowPrices)
                    \subseteq elementsOf(storedPrices(ticks))
            /\ elementsOf(bidVolume) \cup elementsOf(askVolume)
                    \subseteq {ticks[i].Volume : i \in 1..Len(ticks)}
            /\ Len(bidVolume) + Len(askVolume) = Len(ticks)

\* C36 witness: a second call has returned with an error before its row
\* loop, after the first call had added ticks, and the store is empty.
C36_Witness ==
    /\ tasks.pc = "idle"
    /\ pass = 2
    /\ lastTick # <<>>
    /\ lastInput # <<>>
    /\ lastInput[1].err = "failed to open file"
    /\ priceHistory = <<>> /\ highPrices = <<>> /\ bidVolume = <<>>

\* A second call has returned nil with ticks of its own file in the store.
C36_WitnessLoaded ==
    /\ tasks.pc = "idle"
    /\ pass = 2
    /\ lastInput # <<>>
    /\ lastInput[1].err = ""
    /\ Len(priceHistory) >= 2


---------------------------------------------------------------------------
(* SpecExit: GenerateSignal calls at the price 0 and at positive prices on *)
(* either side of the minimum profit, with metrics whose ATR is 0, 1 or    *)
(* infinite, early in a position and 4h30m later.  From 100 to 100.3 the   *)
(* float64 profit is 0.0029999999999998916, just below minProfit/100.      *)

ExitPrices == {R(0), R(100), Q(1003, 10), R(101)}
ExitTimes  == {Clock(60), Clock(330)}

ExitCallMetrics ==
    { ReversalMetrics,
      [EntryMetrics EXCEPT !.ATR = Zero],
      [ReversalMetrics EXCEPT !.ATR = PosInf] }

ExitCall ==
    \E price \in ExitPrices, timestamp \in ExitTimes, m \in ExitCallMetrics :
        /\ Len(emitted) < MaxSignals
        /\ GenerateSignalBody(price, timestamp, m)
        /\ UNCHANGED <<ccVars, mdVars, anVars, mdObs, anObs, thVars>>

InitExitSpec ==
    /\ InitStore(StoreCapacity, FALSE)
    /\ InitAnalyzer
    /\ InitStrategy
    /\ InitObs

NextExit == ExitCall

SpecExit == InitExitSpec /\ [][NextExit]_vars

\* C34: in every exit evaluation with price > 0 and ATR >= 0 the stop_loss
\* and the take_profit predicate are false; so a CLOSE emitted for a positive
\* price has reason time_exit or trend_reversal and a profit percent of at
\* least 0.3, and an evaluation at a profit below 0.3% leaves the position
\* open.
C34_OnlyProfitableExits ==
    [][ (activeTrade.Active /\ lastCall' # <<>>
            /\ F64Gt(lastCall'[1].price, Zero)
            /\ F64Ge(lastCall'[1].metrics.ATR, Zero)) =>
          /\ ~lastEval'[1].hitStop
          /\ ~lastEval'[1].hitTarget
          /\ IsClose(signal') =>
                /\ signal'[1].Reason \in {"time_exit", "trend_reversal"}
                /\ F64Ge(signal'[1].ProfitPercent, minProfit)
          /\ F64Lt(lastEval'[1].profit, threeTenthsPercent) =>
                /\ signal' = <<>>
                /\ activeTrade'.Active ]_vars

\* C34 witness: a CLOSE at a positive price with ATR = 0, where only the
\* floor of 0.1% of the price keeps the stop and the target away from the
\* price, made at a finite profit of at least 0.3%.
C34_Witness ==
    /\ IsClose(signal)
    /\ F64Gt(lastCall[1].price, Zero)
    /\ lastCall[1].metrics.ATR = Zero
    /\ signal[1].Reason = "time_exit"
    /\ ~lastEval[1].hitStop /\ ~lastEval[1].hitTarget
    /\ F64Ge(signal[1].ProfitPercent, minProfit)
    /\ F64IsFinite(signal[1].ProfitPercent)

\* C39: the CurrentPnL GetActiveTradeData reports is 0 when no position is
\* open; for an open position with a positive entry price it is
\* (highest price since entry / entry price - 1) * 100, which is never
\* negative, and from one GenerateSignal call to the next on the same
\* position it does not decrease, whatever the latest price.
C39_PnLFromHighest ==
    /\ [](~activeTrade.Active => currentPnL(activeTrade) = Zero)
    /\ []((activeTrade.Active /\ F64Gt(activeTrade.EntryPrice, Zero)) =>
             LET reported == currentPnL(activeTrade)
             IN  /\ F64Ge(reported, Zero)
                 /\ reported =
                        F64Mul(F64Sub(F64Div(F64Max(activeTrade.EntryPrice,
                                            activeTrade.HighestPrice),
                                       activeTrade.EntryPrice), One), hundred))
    /\ [][ ( /\ activeTrade.Active
              /\ activeTrade'.Active
              /\ F64Gt(activeTrade.EntryPrice, Zero) )
            => F64Ge(currentPnL(activeTrade'), currentPnL(activeTrade)) ]_vars

\* C39 witness: an open position whose latest price lies below its entry
\* price, after a higher one: the reported CurrentPnL is positive.
C39_Witness ==
    /\ activeTrade.Active
    /\ F64Gt(activeTrade.EntryPrice, Zero)
    /\ lastCall # <<>>
    /\ F64Lt(lastCall[1].price, activeTrade.EntryPrice)
    /\ F64Gt(activeTrade.HighestPrice, activeTrade.EntryPrice)
    /\ F64Gt(currentPnL(activeTrade), Zero)

=============================================================================
